---- MODULE Spec2Model ----
(***************************************************************************)
(* A model of the wasmedgeup version store: the install root on disk       *)
(* (versions/<V>/{bin,include,lib,plugin}, the four top-level entries, the *)
(* `current` marker, versions.json, the env script) and the commands that  *)
(* change it: install, use, remove <version>, remove --all.  os is the     *)
(* build the commands run as: cfg(unix) or cfg(windows).  switch is the    *)
(* position of a create_version_symlinks call that is under way, for the   *)
(* specification that follows a use call by call.  tmpdir is the staging   *)
(* directory (--tmpdir, by default the system's), pc[p], job[p], roots[p]  *)
(* the position, the command line and the install root (--path) of the     *)
(* install command of process p, for the specifications that follow        *)
(* installs step by step.  inp and out are the arguments and the result of *)
(* a call of one of the functions that are checked on their own.           *)
(***************************************************************************)
EXTENDS Integers, Sequences, FiniteSets, TLC

VARIABLES fs, prev, last, nops, os, switch, tmpdir, pc, job, roots, inp, out

vars == <<fs, prev, last, nops, os, switch, tmpdir, pc, job, roots, inp, out>>

\* Commands run on one install root in one behaviour.
MaxOps == 2

\* Runs of one install command (the first and its repetitions).
MaxAttempts == 2

(***************************************************************************)
(* Version strings.  A directory name or a command-line argument is a      *)
(* string; Bytes gives its UTF-8 bytes, which is what String::cmp and      *)
(* semver::Version::parse work on.                                         *)
(***************************************************************************)
VersionNames == {"0.9.0", "0.14.1-rc.1", "0.14.1"}

Bytes(s) ==
  CASE s = "0.9.0"       -> <<48, 46, 57, 46, 48>>
    [] s = "0.14.1-rc.1" -> <<48, 46, 49, 52, 46, 49, 45, 114, 99, 46, 49>>
    [] s = "0.14.1"      -> <<48, 46, 49, 52, 46, 49>>
    [] s = "0.15.0"      -> <<48, 46, 49, 53, 46, 48>>
    [] s = "0.15.0-rc.0" -> <<48, 46, 49, 53, 46, 48, 45, 114, 99, 46, 48>>
    [] s = "0.15.0-rc.1" -> <<48, 46, 49, 53, 46, 48, 45, 114, 99, 46, 49>>
    [] s = "not-a-version" ->
         <<110, 111, 116, 45, 97, 45, 118, 101, 114, 115, 105, 111, 110>>
    [] OTHER             -> <<>>

\* <str as Ord>::cmp: bytewise lexicographic, a proper prefix is smaller.
RECURSIVE StrLessFrom(_, _, _)
StrLessFrom(a, b, i) ==
  IF i > Len(a) THEN i <= Len(b)
  ELSE IF i > Len(b) THEN FALSE
  ELSE IF a[i] # b[i] THEN a[i] < b[i]
  ELSE StrLessFrom(a, b, i + 1)

StrLess(a, b) == StrLessFrom(a, b, 1)

\* versions.sort(); versions.last(): the greatest name in string order.
SortedLast(S) == CHOOSE v \in S : \A w \in S : ~StrLess(Bytes(v), Bytes(w))

(***************************************************************************)
(* semver::Version: parse and precedence (the semver crate).               *)
(***************************************************************************)
RECURSIVE SplitFrom(_, _, _, _)
SplitFrom(s, sep, i, cur) ==
  IF i > Len(s) THEN <<cur>>
  ELSE IF s[i] = sep THEN <<cur>> \o SplitFrom(s, sep, i + 1, <<>>)
  ELSE SplitFrom(s, sep, i + 1, Append(cur, s[i]))

Split(s, sep) == SplitFrom(s, sep, 1, <<>>)

RECURSIVE IndexFrom(_, _, _)
IndexFrom(s, c, i) ==
  IF i > Len(s) THEN 0 ELSE IF s[i] = c THEN i ELSE IndexFrom(s, c, i + 1)

IsDigits(b) == Len(b) > 0 /\ \A i \in 1..Len(b) : b[i] \in 48..57

\* A numeric identifier has no leading zero.
IsNumeric(b) == IsDigits(b) /\ (Len(b) = 1 \/ b[1] # 48)

RECURSIVE NumFrom(_, _, _)
NumFrom(b, i, acc) ==
  IF i > Len(b) THEN acc ELSE NumFrom(b, i + 1, acc * 10 + (b[i] - 48))

Num(b) == NumFrom(b, 1, 0)

VersionParse(s) ==
  LET dash  == IndexFrom(s, 45, 1)
      core  == IF dash = 0 THEN s ELSE SubSeq(s, 1, dash - 1)
      pre   == IF dash = 0 THEN <<>> ELSE Split(SubSeq(s, dash + 1, Len(s)), 46)
      parts == Split(core, 46)
      ok    == /\ Len(parts) = 3
               /\ \A i \in 1..Len(parts) : IsNumeric(parts[i])
               /\ \A i \in 1..Len(pre) : Len(pre[i]) > 0 /\ (IsDigits(pre[i]) => IsNumeric(pre[i]))
  IN IF ok
     THEN [ok |-> TRUE, major |-> Num(parts[1]), minor |-> Num(parts[2]),
           patch |-> Num(parts[3]), pre |-> pre]
     ELSE [ok |-> FALSE, major |-> 0, minor |-> 0, patch |-> 0, pre |-> <<>>]

\* One pre-release identifier against another: numeric below alphanumeric,
\* numerics by value, alphanumerics in ASCII order.  -1, 0 or 1.
IdentCmp(a, b) ==
  IF IsDigits(a) /\ IsDigits(b)
  THEN (IF Num(a) < Num(b) THEN -1 ELSE IF Num(a) > Num(b) THEN 1 ELSE 0)
  ELSE IF IsDigits(a) THEN -1
  ELSE IF IsDigits(b) THEN 1
  ELSE IF StrLess(a, b) THEN -1 ELSE IF StrLess(b, a) THEN 1 ELSE 0

RECURSIVE PreCmpFrom(_, _, _)
PreCmpFrom(p, q, i) ==
  IF i > Len(p) THEN (IF i > Len(q) THEN 0 ELSE -1)
  ELSE IF i > Len(q) THEN 1
  ELSE IF IdentCmp(p[i], q[i]) # 0 THEN IdentCmp(p[i], q[i])
  ELSE PreCmpFrom(p, q, i + 1)

\* An empty pre-release (a release) is above every pre-release.
PreCmp(p, q) ==
  IF Len(p) = 0 THEN (IF Len(q) = 0 THEN 0 ELSE 1)
  ELSE IF Len(q) = 0 THEN -1
  ELSE PreCmpFrom(p, q, 1)

VersionCmp(a, b) ==
  IF a.major # b.major THEN (IF a.major < b.major THEN -1 ELSE 1)
  ELSE IF a.minor # b.minor THEN (IF a.minor < b.minor THEN -1 ELSE 1)
  ELSE IF a.patch # b.patch THEN (IF a.patch < b.patch THEN -1 ELSE 1)
  ELSE PreCmp(a.pre, b.pre)

SemverLess(v, w) == VersionCmp(VersionParse(Bytes(v)), VersionParse(Bytes(w))) < 0

(***************************************************************************)
(* The install root.  fs.top is the entry at <root>/<name> for the four    *)
(* names; fs.vtree[v][n] is the directory versions/<v>/<n>: "absent", or   *)
(* the tag of what it holds ("empty", or the version whose files were      *)
(* copied into it last).  fs.extra is what install copied under any other  *)
(* name of the root: [nest, dir, tag] for the file <root>/<nest>/<dir>/..  *)
(* (nest "" for a top-level name).                                         *)
(***************************************************************************)
symlink_dirs == <<"bin", "include", "lib", "plugin">>

NameSet == {symlink_dirs[i] : i \in 1..Len(symlink_dirs)}

Absent == [kind |-> "absent", target |-> <<>>, content |-> "absent"]

Symlink(t) == [kind |-> "symlink", target |-> t, content |-> "absent"]

RealDir(c) == [kind |-> "dir", target |-> <<>>, content |-> c]

NoTree == [n \in NameSet |-> "absent"]

\* The install root does not exist.
EmptyFs ==
  [root |-> FALSE, versionsDir |-> FALSE, installed |-> {},
   vtree |-> [v \in VersionNames |-> NoTree],
   top |-> [n \in NameSet |-> Absent],
   current |-> "", registry |-> [exists |-> FALSE, list |-> <<>>], env |-> FALSE,
   extra |-> {}]

\* The versions a plugin was installed for: they have versions/<v>/plugin.
WithPlugin == {"0.14.1"}

\* versions/<v> as laid out on disk: bin/wasmedge, lib, include, and plugin
\* once a plugin was installed for v.
VersionTree(v) ==
  [n \in NameSet |->
     IF n = "bin" THEN v
     ELSE IF n = "plugin" THEN (IF v \in WithPlugin THEN "empty" ELSE "absent")
     ELSE "empty"]

\* version_dir.exists()
VersionDirExists(f, v) == f.root /\ f.versionsDir /\ v \in f.installed

Builds == {"unix", "windows"}

\* base_dir, the absolute path of the install root, as one path component.
BaseDir == "<base_dir>"

\* A variant that links every name to the version's bin directory.
target_path_bin(build, version, dir) ==
  IF build = "unix" THEN <<"versions", version, "bin">>
  ELSE <<BaseDir, "versions", version, "bin">>

\* unix: format!("versions/{version}/{dir}"), a relative target;
\* windows: base_dir.join("versions").join(version).join(dir), an absolute one.
target_path(build, version, dir) ==
  IF build = "unix" THEN <<"versions", version, dir>>
  ELSE <<BaseDir, "versions", version, dir>>

\* A link target resolved against the install root: its components below
\* the root.
BelowRoot(t) == IF Len(t) > 0 /\ t[1] = BaseDir THEN Tail(t) ELSE t

\* Does the path <root>/<n> lead to a directory (a symlink is followed)?
ResolvesToDir(f, n) ==
  LET e == f.top[n]
      t == BelowRoot(e.target)
  IN \/ e.kind = "dir"
     \/ /\ e.kind = "symlink"
        /\ Len(t) = 3
        /\ t[1] = "versions"
        /\ VersionDirExists(f, t[2])
        /\ f.vtree[t[2]][t[3]] # "absent"

\* Path::exists(): follows symlinks; a dangling link does not exist.
PathExists(f, n) == f.top[n].kind = "file" \/ ResolvesToDir(f, n)

\* The version whose directory the top-level entry n links into, "" if none.
LinkVersion(f, n) ==
  LET e == f.top[n]
      t == BelowRoot(e.target)
  IN IF e.kind = "symlink" /\ Len(t) = 3 /\ t[1] = "versions" THEN t[2] ELSE ""

(***************************************************************************)
(* install: extract the archive into the staging directory, pick the       *)
(* extracted directory, copy_tree it into the install root.                *)
(***************************************************************************)
ArchiveLayouts == {"nested", "flat"}

LibDirNames == {"lib", "lib64"}

\* An archive that holds one file under a name that is neither a runtime
\* directory nor one of bin, lib64, include, lib.
Unrecognized == "unrecognized"

\* The files of the archive of version v: [nest, dir, tag], nest being the
\* top-level directory WasmEdge-<v>-Linux ("" when the archive is flat).
ArchiveFiles(v, layout, libdir) ==
  IF layout = Unrecognized THEN {[nest |-> "", dir |-> "README", tag |-> v]}
  ELSE {[nest |-> IF layout = "nested" THEN v ELSE "", dir |-> d, tag |-> v] :
          d \in {"bin", "include", libdir}}

\* Writing files into a directory: a file replaces the file at the same
\* path, everything else in the directory stays.
WriteOver(tree, files) ==
  {e \in tree : ~\E n \in files : n.nest = e.nest /\ n.dir = e.dir} \cup files

\* extract_archive(file, &tmpdir): the files of the archive unpacked over
\* what the staging directory holds.
extract_archive(tmp, files) == WriteOver(tmp, files)

\* tmpdir.join(install_name) if it is a directory, else tmpdir: the files
\* under the chosen source root, relative to it.
extracted_dir(tmp, v) ==
  IF \E e \in tmp : e.nest = v
  THEN {[nest |-> "", dir |-> e.dir, tag |-> e.tag] : e \in {x \in tmp : x.nest = v}}
  ELSE tmp

\* .replace("lib64", LIB_DIR) on the directory segment.
RewriteDir(d) == IF d = "lib64" THEN "lib" ELSE d

\* A variant of CopyInto that leaves a file alone that is already there.
CopyInto_keep(f, n, tag) ==
  LET e == f.top[n]
  IN CASE e.kind = "absent" -> [f EXCEPT !.root = TRUE, !.top[n] = RealDir(tag)]
       [] e.kind = "dir"    -> f
       [] e.kind = "file"   -> f
       [] e.kind = "symlink" -> f

\* One file of the source copied to <root>/<n>/...: create_dir_all(parent),
\* then fs::copy; a failure is a warning and the entry is skipped.
CopyInto(f, n, tag) ==
  LET e == f.top[n]
  IN CASE e.kind = "absent" -> [f EXCEPT !.root = TRUE, !.top[n] = RealDir(tag)]
       [] e.kind = "dir"    -> [f EXCEPT !.top[n] = RealDir(tag)]
       [] e.kind = "file"   -> f
       [] e.kind = "symlink" ->
            IF ResolvesToDir(f, n)
            THEN [f EXCEPT !.vtree[BelowRoot(e.target)[2]][BelowRoot(e.target)[3]] = tag]
            ELSE f

\* The entries of the source that land under one of the four names.
UnderName(src, n) == {e \in src : e.nest = "" /\ RewriteDir(e.dir) = n}

\* The entry WalkDir yields last among those that land on the same path:
\* the one in the directory named last when there are the two of lib and
\* lib64 (read_dir order is the file system's).
LastOf(here, lastdir) ==
  IF \E e \in here : e.dir = lastdir THEN CHOOSE e \in here : e.dir = lastdir
  ELSE CHOOSE e \in here : TRUE

RECURSIVE copy_tree_from(_, _, _, _)
copy_tree_from(src, f, lastdir, i) ==
  IF i > Len(symlink_dirs) THEN f
  ELSE LET n    == symlink_dirs[i]
           here == UnderName(src, n)
       IN IF here = {} THEN copy_tree_from(src, f, lastdir, i + 1)
          ELSE copy_tree_from(src, CopyInto(f, n, LastOf(here, lastdir).tag), lastdir, i + 1)

\* The entries of the source that land elsewhere in the root, at their
\* target paths.
Elsewhere(src) ==
  {[nest |-> e.nest, dir |-> RewriteDir(e.dir), tag |-> e.tag] :
     e \in {x \in src : ~(x.nest = "" /\ RewriteDir(x.dir) \in NameSet)}}

\* Those entries copied: create_dir_all(parent) makes the root and the
\* directories, fs::copy writes the file over the one that is there.
copy_elsewhere(src, f, lastdir) ==
  LET new  == Elsewhere(src)
      wins == {e \in new : \A o \in new :
                 (o.nest = e.nest /\ o.dir = e.dir /\ o # e) =>
                   e = [nest |-> e.nest, dir |-> e.dir,
                        tag |-> LastOf({x \in src : x.nest = e.nest /\ RewriteDir(x.dir) = e.dir},
                                       lastdir).tag]}
  IN IF new = {} THEN f
     ELSE [f EXCEPT !.root = TRUE, !.extra = WriteOver(@, wins)]

\* copy_tree(&extracted_dir, &target_dir); lastdir is the lib directory that
\* WalkDir yields last.
copy_tree(src, f, lastdir) == copy_elsewhere(src, copy_tree_from(src, f, lastdir, 1), lastdir)

\* After the copy: off windows, create_dir_all(root) and the env script of
\* the always-present sh handler (windows only edits the user PATH).
write_env(f, build) ==
  IF build = "windows" THEN f ELSE [f EXCEPT !.root = TRUE, !.env = TRUE]

\* InstallArgs::execute after the download, with a staging directory of its
\* own: extraction, source root, copy, env script.
InstallExecute(f, v, layout, libdir, build) ==
  LET tmp == extract_archive({}, ArchiveFiles(v, layout, libdir))
      src == extracted_dir(tmp, v)
      f1  == copy_tree(src, f, libdir)
  IN [fs |-> write_env(f1, build), result |-> "Ok"]

(***************************************************************************)
(* use: create_version_symlinks.  fault names the one filesystem call that *)
(* fails with an I/O error: the removal of the old entry or the creation   *)
(* of the new link of symlink_dirs[fault.at]; fault.at = 0 is no failure.  *)
(***************************************************************************)
Faults ==
  {[at |-> 0, phase |-> "none"]} \cup
  {[at |-> i, phase |-> p] : i \in 1..Len(symlink_dirs), p \in {"remove", "create"}}

RECURSIVE create_version_symlinks_from(_, _, _, _, _)
create_version_symlinks_from(f, version, fault, build, i) ==
  IF i > Len(symlink_dirs) THEN [fs |-> f, result |-> "Ok"]
  ELSE
    LET dir == symlink_dirs[i]
        old == f.top[dir]
        \* symlink_metadata is Ok: remove_file or remove_dir_all (windows:
        \* remove_dir, then remove_file, for a symlink)
        removeFails == old.kind # "absent" /\ fault.at = i /\ fault.phase = "remove"
        f1 == [f EXCEPT !.top[dir] = Absent]
        createFails == fault.at = i /\ fault.phase = "create"
        f2 == [f1 EXCEPT !.top[dir] = Symlink(target_path(build, version, dir))]
    IN IF removeFails THEN [fs |-> f, result |-> "IoError"]
       ELSE IF createFails THEN [fs |-> f1, result |-> "IoError"]
       ELSE create_version_symlinks_from(f2, version, fault, build, i + 1)

\* A variant whose removal of an old link goes through the link and empties
\* the directory it points to.
create_version_symlinks_follow(f, version, fault, build) ==
  LET r == create_version_symlinks_from(f, version, fault, build, 1)
  IN [r EXCEPT !.fs.vtree =
        [v \in VersionNames |->
           [n \in NameSet |->
              IF f.top[n].kind = "symlink" /\ LinkVersion(f, n) = v /\ r.fs.top[n] # f.top[n]
              THEN "absent" ELSE r.fs.vtree[v][n]]]]

create_version_symlinks(f, version, fault, build) ==
  create_version_symlinks_from(f, version, fault, build, 1)

\* A variant without the version_dir.exists() check.
UseExecute_unchecked(f, version, fault, build) ==
  create_version_symlinks(f, version, fault, build)

\* UseArgs::execute
UseExecute(f, version, fault, build) ==
  IF ~VersionDirExists(f, version)
  THEN [fs |-> f, result |-> "VersionNotFound"]
  ELSE create_version_symlinks(f, version, fault, build)

(***************************************************************************)
(* remove                                                                  *)
(***************************************************************************)
get_latest_installed_version(f) ==
  IF ~(f.root /\ f.versionsDir) THEN [ok |-> FALSE, version |-> ""]
  ELSE IF f.installed = {} THEN [ok |-> FALSE, version |-> ""]
  ELSE [ok |-> TRUE, version |-> SortedLast(f.installed)]

\* The `current` marker file if there is one, else the latest installed.
get_current_version(f) ==
  IF f.root /\ f.current # "" THEN [ok |-> TRUE, version |-> f.current]
  ELSE get_latest_installed_version(f)

is_active_version(f, version) ==
  LET c == get_current_version(f) IN c.ok /\ c.version = version

\* update_version_registry(version, false): versions.json is rewritten.
update_version_registry(f, version) ==
  [f EXCEPT !.registry =
     [exists |-> TRUE, list |-> SelectSeq(@.list, LAMBDA v : v # version)]]

\* A variant that goes on when versions/<version> does not exist.
remove_version_unchecked(f, version) ==
  [fs |-> update_version_registry(
            [f EXCEPT !.installed = @ \ {version}, !.vtree[version] = NoTree], version),
   result |-> "Ok", active |-> FALSE]

remove_version(f, version) ==
  IF ~VersionDirExists(f, version)
  THEN [fs |-> f, result |-> "VersionNotFound", active |-> FALSE]
  ELSE
    LET f1  == [f EXCEPT !.installed = @ \ {version}, !.vtree[version] = NoTree]
        act == PathExists(f1, "bin") /\ is_active_version(f1, version)
        \* fs::remove_dir_all(&bin_dir): unlinks a symlink, removes a
        \* directory, fails on a regular file
        f2  == [f1 EXCEPT !.top["bin"] = Absent]
    IN IF act /\ f1.top["bin"].kind = "file"
       THEN [fs |-> f1, result |-> "IoError", active |-> TRUE]
       ELSE [fs |-> update_version_registry(IF act THEN f2 ELSE f1, version),
             result |-> "Ok", active |-> act]

\* The answer at the confirmation prompt decides; remove_dir_all(install_dir).
remove_all_versions(f, confirm) ==
  IF ~confirm THEN [fs |-> f, result |-> "Ok"]
  ELSE [fs |-> IF f.root THEN EmptyFs ELSE f, result |-> "Ok"]

(***************************************************************************)
(* Checksum verification.  A file is its bytes, the read position of the   *)
(* handle and whether it is still on disk; strings are their bytes.        *)
(***************************************************************************)
BUFFER_SIZE == 8 * 1024

TestData == <<116, 101, 115, 116, 32, 100, 97, 116, 97>>

DifferentData == <<100, 105, 102, 102, 101, 114, 101, 110, 116, 32, 100, 97, 116, 97>>

\* sha2::Sha256 on the byte strings the model hashes: the digest, 32 bytes.
Sha256(b) ==
  CASE b = <<>> ->
         <<227, 176, 196, 66, 152, 252, 28, 20, 154, 251, 244, 200, 153, 111, 185, 36,
         39, 174, 65, 228, 100, 155, 147, 76, 164, 149, 153, 27, 120, 82, 184, 85>>
    [] b = <<97>> ->
         <<202, 151, 129, 18, 202, 27, 189, 202, 250, 194, 49, 179, 154, 35, 220, 77,
         167, 134, 239, 248, 20, 124, 78, 114, 185, 128, 119, 133, 175, 238, 72, 187>>
    [] b = <<98>> ->
         <<62, 35, 232, 22, 0, 57, 89, 74, 51, 137, 79, 101, 100, 225, 177, 52,
         139, 189, 122, 0, 136, 212, 44, 74, 203, 115, 238, 174, 213, 156, 0, 157>>
    [] b = <<97, 98>> ->
         <<251, 142, 32, 252, 46, 76, 63, 36, 140, 96, 195, 155, 214, 82, 243, 193,
         52, 114, 152, 187, 151, 123, 139, 77, 89, 3, 184, 80, 85, 98, 6, 3>>
    [] b = <<116, 101, 115, 116, 32, 100, 97, 116, 97>> ->
         <<145, 111, 0, 39, 165, 117, 7, 76, 231, 42, 51, 23, 119, 195, 71, 141,
         101, 19, 247, 134, 165, 145, 189, 137, 45, 161, 165, 119, 191, 35, 53, 249>>
    [] b = <<100, 105, 102, 102, 101, 114, 101, 110, 116, 32, 100, 97, 116, 97>> ->
         <<96, 138, 6, 139, 51, 209, 139, 232, 56, 188, 176, 123, 237, 1, 227, 85,
         33, 211, 8, 64, 250, 36, 219, 9, 25, 46, 103, 191, 209, 134, 230, 33>>
    [] OTHER -> <<>>

\* hex::encode: two lowercase hexadecimal digits a byte.
HexDigit(n) == IF n < 10 THEN 48 + n ELSE 87 + n

RECURSIVE hex_encode(_)
hex_encode(b) ==
  IF b = <<>> THEN <<>>
  ELSE <<HexDigit(Head(b) \div 16), HexDigit(Head(b) % 16)>> \o hex_encode(Tail(b))

\* The loop of file.read(&mut buffer) and hasher.update(&buffer[..count]),
\* until a read returns 0: the bytes hashed and the position reached.
RECURSIVE ReadLoop(_, _, _)
ReadLoop(content, pos, hashed) ==
  LET left  == Len(content) - pos
      count == IF left < BUFFER_SIZE THEN left ELSE BUFFER_SIZE
  IN IF count = 0 THEN [hashed |-> hashed, pos |-> pos]
     ELSE ReadLoop(content, pos + count,
                   hashed \o SubSeq(content, pos + 1, pos + count))

\* A variant that returns Ok without file.rewind().
verify_file_checksum_norewind(file, expected) ==
  LET r      == ReadLoop(file.content, file.pos, <<>>)
      actual == hex_encode(Sha256(r.hashed))
  IN IF actual # expected
     THEN [result |-> "ChecksumMismatch", expected |-> expected, actual |-> actual,
           file |-> [file EXCEPT !.pos = r.pos]]
     ELSE [result |-> "Ok", expected |-> <<>>, actual |-> <<>>,
           file |-> [file EXCEPT !.pos = r.pos]]

\* WasmEdgeApiClient::verify_file_checksum
verify_file_checksum(file, expected) ==
  LET r      == ReadLoop(file.content, file.pos, <<>>)
      actual == hex_encode(Sha256(r.hashed))
  IN IF actual # expected
     THEN [result |-> "ChecksumMismatch", expected |-> expected, actual |-> actual,
           file |-> [file EXCEPT !.pos = r.pos]]
     ELSE [result |-> "Ok", expected |-> <<>>, actual |-> <<>>,
           file |-> [file EXCEPT !.pos = 0]]

(***************************************************************************)
(* The versions directory as read_dir lists it: d.exists, and d.entries,   *)
(* the set of [name, kind] with kind "dir" or "file".                      *)
(***************************************************************************)
None == [some |-> FALSE, version |-> ""]

\* The names of the entries that are directories.
DirEntries(d) == {e.name : e \in {x \in d.entries : x.kind = "dir"}}

\* The greatest of a set of names in the order of <str as Ord>::cmp.
StrMax(S) == CHOOSE v \in S : \A w \in S : ~StrLess(Bytes(v), Bytes(w))

\* A variant that takes the greatest name in string order.
latest_installed_version_strsort(d) ==
  IF ~d.exists \/ DirEntries(d) = {} THEN None
  ELSE [some |-> TRUE, version |-> StrMax(DirEntries(d))]

\* latest_installed_version: the directories whose names Version::parse
\* accepts, sort_by(|a, b| b.cmp(a)), the first.
latest_installed_version(d) ==
  IF ~d.exists THEN None
  ELSE LET versions == {n \in DirEntries(d) : VersionParse(Bytes(n)).ok}
       IN IF versions = {} THEN None
          ELSE [some |-> TRUE,
                version |-> CHOOSE v \in versions : \A w \in versions :
                  VersionCmp(VersionParse(Bytes(w)), VersionParse(Bytes(v))) <= 0]

\* versions.sort_by(|a, b| b.cmp(a)) on Strings: descending string order.
RECURSIVE SortStrDesc(_)
SortStrDesc(S) ==
  IF S = {} THEN <<>> ELSE <<StrMax(S)>> \o SortStrDesc(S \ {StrMax(S)})

\* ListArgs::execute without --remote: the lines printed, [version, current]
\* for `<version>` and `<version> <- current`.  bin is the entry at
\* <root>/bin; read_link gives the version component of its target.
ListExecute(d, bin) ==
  LET t       == BelowRoot(bin.target)
      current == IF bin.kind = "symlink" /\ Len(t) >= 2 /\ t[1] = "versions"
                 THEN t[2] ELSE ""
      sorted  == IF d.exists THEN SortStrDesc(DirEntries(d)) ELSE <<>>
  IN [i \in 1..Len(sorted) |->
        [version |-> sorted[i], current |-> current # "" /\ sorted[i] = current]]

(***************************************************************************)
(* Platform keys and archive names.  An OsSpec is [os_type, arch, libc,    *)
(* version]; version is the Option<String> of the OS version, as bytes.    *)
(* A formatted name is kept as the record of the pieces format! joins.     *)
(***************************************************************************)
Some(x) == [some |-> TRUE, val |-> x]

NoneOpt == [some |-> FALSE, val |-> <<>>]

\* Version::new(major, minor, patch)
VersionNew(major, minor, patch) ==
  [ok |-> TRUE, major |-> major, minor |-> minor, patch |-> patch, pre |-> <<>>]

arch_to_string(arch) == IF arch = "X86_64" THEN "x86_64" ELSE "aarch64"

arch_to_darwin_string(arch) == IF arch = "Aarch64" THEN "arm64" ELSE "x86_64"

Key(prefix, major, arch) == [prefix |-> prefix, major |-> major, arch |-> arch]

OkKey(k) == [ok |-> TRUE, key |-> k, error |-> "", os |-> "", arch |-> ""]

UnsupportedPlatform(o, a) ==
  [ok |-> FALSE, key |-> Key("", <<>>, ""), error |-> "UnsupportedPlatform", os |-> o, arch |-> a]

\* A variant whose boundary is the release 0.15.0.
plugin_platform_key_release(o, runtime_version) ==
  IF o.os_type \in {"Linux", "Ubuntu"} /\ o.libc = "Glibc"
  THEN OkKey(Key(IF VersionCmp(runtime_version, VersionNew(0, 15, 0)) < 0
                 THEN "manylinux2014" ELSE "manylinux_2_28", <<>>, arch_to_string(o.arch)))
  ELSE UnsupportedPlatform(o.os_type, o.arch)

plugin_platform_key(o, runtime_version) ==
  LET arch_str == arch_to_string(o.arch)
  IN CASE o.os_type = "Darwin" ->
            LET darwin_arch == arch_to_darwin_string(o.arch)
                dot         == IndexFrom(o.version.val, 46, 1)
                major       == SubSeq(o.version.val, 1, dot - 1)
            IN IF o.version.some /\ dot > 0 /\ IsDigits(major)
               THEN OkKey(Key("darwin", major, darwin_arch))
               ELSE OkKey(Key("darwin", <<>>, darwin_arch))
       [] o.os_type = "Windows" ->
            IF o.arch = "X86_64" THEN OkKey(Key("windows", <<>>, "x86_64"))
            ELSE UnsupportedPlatform("Windows", o.arch)
       [] OTHER ->
            IF o.libc = "Glibc"
            THEN LET rc_boundary == VersionParse(Bytes("0.15.0-rc.0"))
                     use_ml2014  == VersionCmp(runtime_version, rc_boundary) < 0
                 IN OkKey(Key(IF use_ml2014 THEN "manylinux2014" ELSE "manylinux_2_28",
                              <<>>, arch_str))
            ELSE UnsupportedPlatform(o.os_type, o.arch)

\* semver::VersionReq::matches for a comparator [op, major, minor, patch,
\* pre] with minor and patch optional (the semver crate, eval.rs).
matches_exact(cmp, ver) ==
  /\ ver.major = cmp.major
  /\ cmp.minor.some => ver.minor = cmp.minor.val
  /\ cmp.patch.some => ver.patch = cmp.patch.val
  /\ ver.pre = cmp.pre

matches_less(cmp, ver) ==
  IF ver.major # cmp.major THEN ver.major < cmp.major
  ELSE IF ~cmp.minor.some THEN FALSE
  ELSE IF ver.minor # cmp.minor.val THEN ver.minor < cmp.minor.val
  ELSE IF ~cmp.patch.some THEN FALSE
  ELSE IF ver.patch # cmp.patch.val THEN ver.patch < cmp.patch.val
  ELSE PreCmp(ver.pre, cmp.pre) < 0

matches_impl(cmp, ver) ==
  IF cmp.op = "LessEq" THEN matches_exact(cmp, ver) \/ matches_less(cmp, ver)
  ELSE FALSE

pre_is_compatible(cmp, ver) ==
  /\ cmp.major = ver.major
  /\ cmp.minor.some /\ cmp.minor.val = ver.minor
  /\ cmp.patch.some /\ cmp.patch.val = ver.patch
  /\ cmp.pre # <<>>

matches_req(comparators, ver) ==
  /\ \A i \in 1..Len(comparators) : matches_impl(comparators[i], ver)
  /\ \/ ver.pre = <<>>
     \/ \E i \in 1..Len(comparators) : pre_is_compatible(comparators[i], ver)

MANYLINUX2014_SUPPORTED_VERSIONS ==
  <<[op |-> "LessEq", major |-> 0, minor |-> Some(14), patch |-> NoneOpt, pre |-> <<>>]>>

is_manylinux2014_supported(version) == matches_req(MANYLINUX2014_SUPPORTED_VERSIONS, version)

is_arm_ubuntu_supported(version) == VersionCmp(version, VersionNew(0, 13, 5)) >= 0

ArchiveName(version, platform, arch, ext) ==
  [version |-> version, platform |-> platform, arch |-> arch, ext |-> ext]

format_archive_name(version, os_type, arch) ==
  CASE os_type = "Ubuntu" /\ arch = "X86_64" ->
         ArchiveName(version, "ubuntu20.04", "x86_64", "tar.gz")
    [] os_type = "Ubuntu" /\ arch = "Aarch64" /\ is_arm_ubuntu_supported(version) ->
         ArchiveName(version, "ubuntu20.04", "aarch64", "tar.gz")
    [] os_type \in {"Linux", "Ubuntu"} /\
       ~(os_type = "Ubuntu" /\ (arch = "X86_64" \/ is_arm_ubuntu_supported(version))) ->
         ArchiveName(version,
                     IF is_manylinux2014_supported(version)
                     THEN "manylinux2014" ELSE "manylinux_2_28",
                     IF arch = "X86_64" THEN "x86_64" ELSE "aarch64", "tar.gz")
    [] os_type = "Darwin" /\ arch = "X86_64" ->
         ArchiveName(version, "darwin", "x86_64", "tar.gz")
    [] os_type = "Darwin" /\ arch = "Aarch64" ->
         ArchiveName(version, "darwin", "arm64", "tar.gz")
    [] os_type = "Windows" -> ArchiveName(version, "windows", "", "zip")

(***************************************************************************)
(* Version resolution.  The release source is the sequence of the          *)
(* upstream tags, newest first, as parsed versions.                        *)
(***************************************************************************)
ReleasesFilter_matches(filter, semver) == filter = "All" \/ semver.pre = <<>>

\* releases::get_all: the tags of the source that pass the filter, in the
\* order of the source.
get_all(source, filter) == SelectSeq(source, LAMBDA v : ReleasesFilter_matches(filter, v))

Resolved(v, queried) == [ok |-> TRUE, version |-> v, error |-> "", queried |-> queried]

ResolveErr(e, queried) ==
  [ok |-> FALSE, version |-> VersionNew(0, 0, 0), error |-> e, queried |-> queried]

\* releases.into_iter().next().ok_or(Error::Unknown)
latest_release(source) ==
  LET releases == get_all(source, "Stable")
  IN IF Len(releases) = 0 THEN ResolveErr("Unknown", TRUE) ELSE Resolved(releases[1], TRUE)

resolve_version(version, source) ==
  IF version = "latest" THEN latest_release(source)
  ELSE IF VersionParse(Bytes(version)).ok THEN Resolved(VersionParse(Bytes(version)), FALSE)
  ELSE ResolveErr("SemVer", FALSE)

(***************************************************************************)
(* plugin remove.  A plugin file libwasmedgePlugin<name>.so is known by    *)
(* <name>, a byte string.  A plugin directory is [exists, plugins, other]: *)
(* the names of its plugin files and whether it holds another regular      *)
(* file.  A plugin store is [installed, vplugin, top]: the versions with a *)
(* directory, versions/<v>/plugin for each, and the entry at <root>/plugin *)
(* (absent, a symlink to versions/<version>/plugin, or a real directory).  *)
(***************************************************************************)
wasi_nn == <<119, 97, 115, 105, 95, 110, 110>>

wasinn == <<119, 97, 115, 105, 110, 110>>

wasi_logging == <<119, 97, 115, 105, 95, 108, 111, 103, 103, 105, 110, 103>>

WASI_NN_dashed == <<87, 65, 83, 73, 45, 78, 78>>

not_exists == <<110, 111, 116, 95, 101, 120, 105, 115, 116, 115>>

NoDir == [exists |-> FALSE, plugins |-> {}, other |-> FALSE]

IsAlnum(c) == c \in 48..57 \/ c \in 65..90 \/ c \in 97..122

ToLower(c) == IF c \in 65..90 THEN c + 32 ELSE c

\* A variant that only lowers the case.
normalize_name_keep(str) == [i \in 1..Len(str) |-> ToLower(str[i])]

normalize_name(str) ==
  LET kept == SelectSeq(str, IsAlnum)
  IN [i \in 1..Len(kept) |-> ToLower(kept[i])]

\* What <root>/plugin resolves to: a directory, or NoDir.
StableDir(st) ==
  CASE st.top.kind = "dir" -> st.top.dir
    [] st.top.kind = "symlink" /\ st.top.version \in st.installed -> st.vplugin[st.top.version]
    [] OTHER -> NoDir

\* The directory a path under plugin_dir ("version") or under
\* stable_plugin_dir ("top") is in: a version's, or the real one at the top.
RealLoc(st, loc, runtime) ==
  IF loc = "version" THEN runtime
  ELSE IF st.top.kind = "symlink" THEN st.top.version ELSE "top"

\* by_name: for every regular plugin file of the searched directories, its
\* path under the raw name and under the normalized name.
ByName(st, runtime) ==
  LET found == {[loc |-> "version", name |-> n] : n \in st.vplugin[runtime].plugins} \cup
               {[loc |-> "top", name |-> n] : n \in StableDir(st).plugins}
  IN {[key |-> f.name, file |-> f] : f \in found} \cup
     {[key |-> normalize_name(f.name), file |-> f] : f \in found}

\* by_name.get(&want).or_else(|| by_name.get(&key_norm))
Wanted(by_name, want) ==
  IF \E e \in by_name : e.key = want
  THEN {e.file : e \in {x \in by_name : x.key = want}}
  ELSE {e.file : e \in {x \in by_name : x.key = normalize_name(want)}}

\* tokio::fs::remove_file on the files of one requested name (one already
\* gone is skipped).
remove_files(st, files, runtime) ==
  LET gone(d) == {f.name : f \in {x \in files : RealLoc(st, x.loc, runtime) = d}}
  IN [st EXCEPT
        !.vplugin = [v \in DOMAIN st.vplugin |->
                       [st.vplugin[v] EXCEPT !.plugins = @ \ gone(v)]],
        !.top = IF st.top.kind = "dir"
                THEN [st.top EXCEPT !.dir.plugins = @ \ gone("top")] ELSE st.top]

RECURSIVE RemoveLoop(_, _, _, _, _)
RemoveLoop(st, by_name, requested, runtime, i) ==
  IF i > Len(requested) THEN st
  ELSE RemoveLoop(remove_files(st, Wanted(by_name, requested[i]), runtime),
                  by_name, requested, runtime, i + 1)

\* The clean-up after a removal: a searched directory left without a
\* regular file is removed with remove_dir, which fails on a symlink.
remove_empty_dirs(st, runtime) ==
  LET HasFile(d) == d.plugins # {} \/ d.other
      first == IF st.vplugin[runtime].exists /\ ~HasFile(st.vplugin[runtime])
               THEN [st EXCEPT !.vplugin[runtime] = NoDir] ELSE st
  IN IF first.top.kind = "dir" /\ ~HasFile(first.top.dir)
     THEN [first EXCEPT !.top = [kind |-> "absent", version |-> "", dir |-> NoDir]]
     ELSE first

\* PluginRemoveArgs::execute with --runtime given.
PluginRemoveExecute(st, plugins, runtime) ==
  IF Len(plugins) = 0 THEN [result |-> "NoPluginsSpecified", st |-> st]
  ELSE IF ~VersionParse(Bytes(runtime)).ok THEN [result |-> "SemVer", st |-> st]
  ELSE IF runtime \notin st.installed THEN [result |-> "VersionNotFound", st |-> st]
  ELSE LET by_name     == ByName(st, runtime)
           removed_any == \E i \in 1..Len(plugins) : Wanted(by_name, plugins[i]) # {}
           after       == RemoveLoop(st, by_name, plugins, runtime, 1)
       IN IF by_name = {} THEN [result |-> "Ok", st |-> st]
          ELSE [result |-> "Ok",
                st |-> IF removed_any THEN remove_empty_dirs(after, runtime) ELSE after]

(***************************************************************************)
(* copy_tree, path by path.  A path relative to from_dir is a byte string  *)
(* with / between its segments.  A source entry is [path, kind, target]:   *)
(* a regular file, or a symlink with the target read_link gives.  The      *)
(* destination is the set of [path, kind, target, data] it holds, data     *)
(* being the source path the entry was copied from.                        *)
(***************************************************************************)
LIB_DIR == <<108, 105, 98>>

\* str::replace: every non-overlapping match of pat, from the left.
RECURSIVE ReplaceFrom(_, _, _, _)
ReplaceFrom(str, pat, to, i) ==
  IF i > Len(str) THEN <<>>
  ELSE IF i + Len(pat) - 1 <= Len(str) /\ SubSeq(str, i, i + Len(pat) - 1) = pat
       THEN to \o ReplaceFrom(str, pat, to, i + Len(pat))
       ELSE <<str[i]>> \o ReplaceFrom(str, pat, to, i + 1)

\* to_dir.join(rel.to_string_lossy().replace("lib64", LIB_DIR))
target_loc(rel) == ReplaceFrom(rel, <<108, 105, 98, 54, 52>>, LIB_DIR, 1)

\* The faults of one entry: create_dir_all, fs::copy or symlink fails.
EntryFaults == {"none", "create_dir_all", "copy"}

\* copy_tree ends with Ok(()) after the loop, whatever was logged.
CopyResult(faults) == "Ok"

\* One entry of the walk: on a failure a warning and the next entry,
\* otherwise the entry at target_loc is replaced.
CopyEntry(dest, e, fault) ==
  IF fault # "none" THEN dest
  ELSE {d \in dest : d.path # target_loc(e.path)} \cup
       {[path |-> target_loc(e.path), kind |-> e.kind, target |-> e.target, data |-> e.path]}

RECURSIVE CopyEntries(_, _, _, _)
CopyEntries(dest, entries, faults, i) ==
  IF i > Len(entries) THEN dest
  ELSE CopyEntries(CopyEntry(dest, entries[i], faults[i]), entries, faults, i + 1)

\* copy_tree on the entries in the order WalkDir yields them, into an empty
\* to_dir.
copy_tree_entries(entries, faults) ==
  [result |-> CopyResult(faults), dest |-> CopyEntries({}, entries, faults, 1)]

(***************************************************************************)
(* get_release_checksum: the SHA256SUM manifest is a byte string.          *)
(***************************************************************************)
\* char::is_whitespace on ASCII: tab, LF, VT, FF, CR, space.
IsWhitespace(c) == c \in {9, 10, 11, 12, 13, 32}

\* str::lines: split at LF, no final empty line, a trailing CR dropped.
Lines(content) ==
  LET pieces == Split(content, 10)
      kept   == IF pieces[Len(pieces)] = <<>> THEN SubSeq(pieces, 1, Len(pieces) - 1) ELSE pieces
  IN [i \in 1..Len(kept) |->
        IF Len(kept[i]) > 0 /\ kept[i][Len(kept[i])] = 13
        THEN SubSeq(kept[i], 1, Len(kept[i]) - 1) ELSE kept[i]]

\* str::split_whitespace: the maximal runs of non-whitespace.
RECURSIVE SplitWhitespaceFrom(_, _, _)
SplitWhitespaceFrom(line, i, cur) ==
  IF i > Len(line) THEN (IF cur = <<>> THEN <<>> ELSE <<cur>>)
  ELSE IF IsWhitespace(line[i])
       THEN (IF cur = <<>> THEN <<>> ELSE <<cur>>) \o SplitWhitespaceFrom(line, i + 1, <<>>)
       ELSE SplitWhitespaceFrom(line, i + 1, Append(cur, line[i]))

split_whitespace(line) == SplitWhitespaceFrom(line, 1, <<>>)

ChecksumNotFound(version, asset) ==
  [ok |-> FALSE, checksum |-> <<>>, error |-> "ChecksumNotFound",
   version |-> version, asset |-> asset]

\* A variant that takes a line with two tokens or more.
ChecksumFrom_atleast(lines, archive_name, version, i) ==
  LET hits == {j \in 1..Len(lines) :
                 /\ Len(split_whitespace(lines[j])) >= 2
                 /\ split_whitespace(lines[j])[2] = archive_name}
  IN IF hits = {} THEN ChecksumNotFound(version, archive_name)
     ELSE [ok |-> TRUE,
           checksum |-> split_whitespace(lines[CHOOSE j \in hits : \A k \in hits : j <= k])[1],
           error |-> "", version |-> version, asset |-> archive_name]

\* The loop over content.lines() from line i on.
RECURSIVE ChecksumFrom(_, _, _, _)
ChecksumFrom(lines, archive_name, version, i) ==
  IF i > Len(lines) THEN ChecksumNotFound(version, archive_name)
  ELSE LET parts == split_whitespace(lines[i])
       IN IF Len(parts) = 2 /\ parts[2] = archive_name
          THEN [ok |-> TRUE, checksum |-> parts[1], error |-> "",
                version |-> version, asset |-> archive_name]
          ELSE ChecksumFrom(lines, archive_name, version, i + 1)

\* success is response.status().is_success(); content is response.text().
get_release_checksum(success, content, version, archive_name) ==
  IF ~success THEN ChecksumNotFound(version, archive_name)
  ELSE ChecksumFrom(Lines(content), archive_name, version, 1)

(***************************************************************************)
(* use, one filesystem call at a time.  switch.at is the index in          *)
(* symlink_dirs of the name being replaced, switch.phase the call that is  *)
(* next for it, switch.from the version the bin link named when the call   *)
(* began.                                                                  *)
(***************************************************************************)
NoSwitch == [active |-> FALSE, version |-> "", at |-> 0, phase |-> "none",
             from |-> "", result |-> ""]

\* fs::remove_file / remove_dir_all of the entry at <root>/<dir>
remove_old_entry(f, dir) == [f EXCEPT !.top[dir] = Absent]

\* symlink_unix / symlink_dir of target_path at <root>/<dir>
create_symlink(f, build, version, dir) ==
  [f EXCEPT !.top[dir] = Symlink(target_path(build, version, dir))]

\* The variables of the call-by-call specifications, which the commands of
\* Spec leave alone, and their values while no such call is under way.
stepvars == <<switch, tmpdir, pc, job, roots, inp, out>>

Procs == {1, 2}

\* job[p]: the version, the archive of the release (its layout, its lib
\* directory, whether its SHA-256 is the published one), what the run
\* returned, the number of runs and what the earlier ones returned, and the
\* install root as it was when the run began.
NoJob == [version |-> "", layout |-> "", libdir |-> "", digest |-> "",
          result |-> "", attempts |-> 0, earlier |-> <<>>, before |-> EmptyFs]

\* No function called, or called and not yet returned.
NoCall == [fn |-> "none"]

NoCalls == inp = NoCall /\ out = NoCall

IdleSteps ==
  /\ switch = NoSwitch
  /\ tmpdir = {}
  /\ pc = [p \in Procs |-> "idle"]
  /\ job = [p \in Procs |-> NoJob]
  /\ roots = [p \in Procs |-> EmptyFs]

Idle == IdleSteps /\ NoCalls

(***************************************************************************)
(* The state machine.  prev is the install root before the last command,   *)
(* last the command, its argument and what it returned.                    *)
(***************************************************************************)
NoOp == [op |-> "none", version |-> "", result |-> "", active |-> FALSE, confirm |-> FALSE]

\* An install root as `use` leaves it: some versions installed, no link or
\* all four links into one installed version; marker is the content of the
\* `current` file ("" when there is none).
InstalledRoot(inst, cur, marker, build) ==
  [root |-> TRUE, versionsDir |-> TRUE, installed |-> inst,
   vtree |-> [v \in VersionNames |-> IF v \in inst THEN VersionTree(v) ELSE NoTree],
   top |-> [n \in NameSet |-> IF cur = "" THEN Absent
                           ELSE IF build = "unix" THEN Symlink(<<"versions", cur, n>>)
                           ELSE Symlink(<<BaseDir, "versions", cur, n>>)],
   current |-> marker, registry |-> [exists |-> FALSE, list |-> <<>>], env |-> FALSE,
   extra |-> {}]

Init ==
  /\ os \in Builds
  /\ \/ fs = EmptyFs
     \/ fs = [EmptyFs EXCEPT !.root = TRUE]
     \/ \E inst \in SUBSET VersionNames \ {{}} :
          \E cur \in inst \cup {""} : fs = InstalledRoot(inst, cur, "", os)
     \/ \E inst \in SUBSET VersionNames \ {{}} :
          \E cur \in inst \cup {""}, marker \in inst :
            fs = InstalledRoot(inst, cur, marker, os)
  /\ prev = fs
  /\ last = NoOp
  /\ nops = 0
  /\ Idle

Install ==
  \E v \in VersionNames, layout \in ArchiveLayouts, libdir \in LibDirNames :
    LET r == InstallExecute(fs, v, layout, libdir, os)
    IN /\ fs' = r.fs
       /\ prev' = fs
       /\ last' = [NoOp EXCEPT !.op = "install", !.version = v, !.result = r.result]

Use ==
  \E v \in VersionNames, fault \in Faults :
    LET r == UseExecute(fs, v, fault, os)
    IN /\ fs' = r.fs
       /\ prev' = fs
       /\ last' = [NoOp EXCEPT !.op = "use", !.version = v, !.result = r.result]

\* RemoveCommand::execute with a version given, or none (the current one).
Remove ==
  \E arg \in VersionNames \cup {""} :
    LET c == IF arg = "" THEN get_current_version(fs) ELSE [ok |-> TRUE, version |-> arg]
        r == remove_version(fs, c.version)
    IN /\ prev' = fs
       /\ IF ~c.ok
          THEN /\ fs' = fs
               /\ last' = [NoOp EXCEPT !.op = "remove", !.result = "NoVersionsInstalled"]
          ELSE /\ fs' = r.fs
               /\ last' = [NoOp EXCEPT !.op = "remove", !.version = c.version,
                                       !.result = r.result, !.active = r.active]

RemoveAll ==
  \E confirm \in BOOLEAN :
    LET r == remove_all_versions(fs, confirm)
    IN /\ fs' = r.fs
       /\ prev' = fs
       /\ last' = [NoOp EXCEPT !.op = "remove_all", !.result = r.result, !.confirm = confirm]

Step == nops < MaxOps /\ nops' = nops + 1 /\ os' = os /\ UNCHANGED stepvars

Next ==
  \/ Step /\ Install
  \/ Step /\ Use
  \/ Step /\ Remove
  \/ Step /\ RemoveAll

Spec == Init /\ [][Next]_vars

(***************************************************************************)
(* SpecUse: use commands on an install root with versions installed, each  *)
(* filesystem call of create_version_symlinks a step of its own, so that   *)
(* every state is one a reader of the install root can observe.            *)
(***************************************************************************)
InitUse ==
  /\ os \in Builds
  /\ \E inst \in SUBSET VersionNames \ {{}} :
       \E cur \in inst \cup {""} : fs = InstalledRoot(inst, cur, "", os)
  /\ prev = fs
  /\ last = NoOp
  /\ nops = 0
  /\ switch = NoSwitch
  /\ tmpdir = {}
  /\ pc = [p \in Procs |-> "idle"]
  /\ job = [p \in Procs |-> NoJob]
  /\ roots = [p \in Procs |-> EmptyFs]
  /\ NoCalls

\* UseArgs::execute up to the call of create_version_symlinks.
UseBegin ==
  /\ ~switch.active
  /\ \E v \in VersionNames :
       IF ~VersionDirExists(fs, v)
       THEN switch' = [NoSwitch EXCEPT !.version = v, !.result = "VersionNotFound"]
       ELSE switch' = [active |-> TRUE, version |-> v, at |-> 1, phase |-> "remove",
                       from |-> LinkVersion(fs, "bin"), result |-> ""]
  /\ UNCHANGED fs

\* if let Ok(meta) = symlink_metadata(..) { remove the old entry }
UseRemoveOld ==
  /\ switch.active /\ switch.phase = "remove"
  /\ fs' = IF fs.top[symlink_dirs[switch.at]].kind = "absent" THEN fs
            ELSE remove_old_entry(fs, symlink_dirs[switch.at])
  /\ switch' = [switch EXCEPT !.phase = "create"]

\* the symlink call, then the next name or Ok(())
UseCreateNew ==
  /\ switch.active /\ switch.phase = "create"
  /\ fs' = create_symlink(fs, os, switch.version, symlink_dirs[switch.at])
  /\ switch' = IF switch.at = Len(symlink_dirs)
                 THEN [NoSwitch EXCEPT !.version = switch.version,
                                       !.from = switch.from, !.result = "Ok"]
                 ELSE [switch EXCEPT !.at = @ + 1, !.phase = "remove"]

\* The filesystem call that is next fails: `?` returns the error.
UseFail ==
  /\ switch.active
  /\ switch.phase = "remove" => fs.top[symlink_dirs[switch.at]].kind # "absent"
  /\ switch' = [NoSwitch EXCEPT !.version = switch.version,
                                !.from = switch.from, !.result = "IoError"]
  /\ UNCHANGED fs

StepUse == UNCHANGED <<prev, last, nops, os, tmpdir, pc, job, roots, inp, out>>

NextUse ==
  \/ StepUse /\ UseBegin
  \/ StepUse /\ UseRemoveOld
  \/ StepUse /\ UseCreateNew
  \/ StepUse /\ UseFail

SpecUse == InitUse /\ [][NextUse]_vars

(***************************************************************************)
(* install, one step of InstallArgs::execute at a time: the request, the   *)
(* body of the response written to a NamedTempFile in tmpdir, the          *)
(* extraction into tmpdir, the copy into the install root, the env script. *)
(***************************************************************************)
\* NamedTempFile::new_in(tmpdir): a file of tmpdir under a name of its own.
TmpName(p) == IF p = 1 THEN ".tmpA" ELSE ".tmpB"

DownloadFile(p) == [nest |-> "", dir |-> TmpName(p), tag |-> job[p].version]

\* The position of a file in the order the archive lists and WalkDir
\* yields the directories.
DirIndex(d) ==
  IF RewriteDir(d) \in NameSet
  THEN CHOOSE i \in 1..Len(symlink_dirs) : symlink_dirs[i] = RewriteDir(d)
  ELSE 1

\* What a write of files that stops in the middle of the k-th leaves: the
\* files before it whole, that one cut short, none of the later ones.
Partial(files, k) ==
  {e \in files : DirIndex(e.dir) < k} \cup
  {[e EXCEPT !.tag = "truncated"] : e \in {x \in files : DirIndex(x.dir) = k}}

Finish(p, position, result) ==
  /\ pc' = [pc EXCEPT ![p] = position]
  /\ job' = [job EXCEPT ![p].result = result]

\* The command line: version, --tmpdir, --path; the release asset it names.
Start(p, layouts, digests) ==
  /\ pc[p] = "idle"
  /\ \E v \in VersionNames, layout \in layouts, libdir \in LibDirNames, d \in digests :
       /\ layout = Unrecognized => libdir = "lib"
       /\ job' = [job EXCEPT ![p] = [version |-> v, layout |-> layout, libdir |-> libdir,
                                      digest |-> d, result |-> "", attempts |-> 1,
                                      earlier |-> <<>>, before |-> roots[p]]]
  /\ pc' = [pc EXCEPT ![p] = "send"]
  /\ UNCHANGED <<tmpdir, roots>>

\* A variant that stages the download in the install root.
Send_in_root(p) ==
  /\ pc[p] = "send"
  /\ roots' = [roots EXCEPT ![p].root = TRUE, ![p].extra = @ \cup {DownloadFile(p)}]
  /\ pc' = [pc EXCEPT ![p] = "body"]
  /\ UNCHANGED <<job, tmpdir>>

\* client.get(url).send() answers; NamedTempFile::new_in(tmpdir)
Send(p) ==
  /\ pc[p] = "send"
  /\ tmpdir' = tmpdir \cup {DownloadFile(p)}
  /\ pc' = [pc EXCEPT ![p] = "body"]
  /\ UNCHANGED <<job, roots>>

\* send() fails (connect, timeout): Request, before any file exists
SendFails(p) ==
  /\ pc[p] = "send"
  /\ Finish(p, "failed", "Request(asset download)")
  /\ UNCHANGED <<tmpdir, roots>>

\* download_asset: every chunk written, flush
Body(p) ==
  /\ pc[p] = "body"
  /\ pc' = [pc EXCEPT ![p] = "extract"]
  /\ UNCHANGED <<tmpdir, job, roots>>

\* response.chunk() fails in the body: Request; the NamedTempFile is
\* dropped, which deletes it
BodyFails(p) ==
  /\ pc[p] = "body"
  /\ tmpdir' = tmpdir \ {DownloadFile(p)}
  /\ Finish(p, "failed", "Request(chunk)")
  /\ UNCHANGED roots

\* file.into_file() unlinks the download; extract_archive(.., &tmpdir)
Extract(p) ==
  /\ pc[p] = "extract"
  /\ tmpdir' = extract_archive(tmpdir \ {DownloadFile(p)},
                                ArchiveFiles(job[p].version, job[p].layout, job[p].libdir))
  /\ pc' = [pc EXCEPT ![p] = "copy"]
  /\ UNCHANGED <<job, roots>>

\* unpack fails in the middle of a file: Extract
ExtractFails(p) ==
  /\ pc[p] = "extract"
  /\ \E k \in 1..3 :
       tmpdir' = extract_archive(tmpdir \ {DownloadFile(p)},
                   Partial(ArchiveFiles(job[p].version, job[p].layout, job[p].libdir), k))
  /\ Finish(p, "failed", "Extract")
  /\ UNCHANGED roots

\* extracted_dir, copy_tree(&extracted_dir, &target_dir)
Copy(p) ==
  /\ pc[p] = "copy"
  /\ \E lastdir \in LibDirNames :
       roots' = [roots EXCEPT ![p] =
                   copy_tree(extracted_dir(tmpdir, job[p].version), @, lastdir)]
  /\ pc' = [pc EXCEPT ![p] = "env"]
  /\ UNCHANGED <<tmpdir, job>>

\* The process is killed in the middle of the copy of a file.
CopyKilled(p) ==
  /\ pc[p] = "copy"
  /\ \E lastdir \in LibDirNames, k \in 1..3 :
       roots' = [roots EXCEPT ![p] =
                   copy_tree(Partial(extracted_dir(tmpdir, job[p].version), k), @, lastdir)]
  /\ Finish(p, "failed", "Killed")
  /\ UNCHANGED tmpdir

\* create_dir_all(root), the env script, the rc file: Ok(())
Env(p) ==
  /\ pc[p] = "env"
  /\ roots' = [roots EXCEPT ![p] = write_env(@, os)]
  /\ Finish(p, "done", "Ok")
  /\ UNCHANGED tmpdir

\* fs::write of the env script fails: Io
EnvFails(p) ==
  /\ pc[p] = "env"
  /\ os # "windows"
  /\ roots' = [roots EXCEPT ![p].root = TRUE]
  /\ Finish(p, "failed", "IoError")
  /\ UNCHANGED tmpdir

\* The same command line run again.
Again(p) ==
  /\ pc[p] \in {"failed", "done"}
  /\ job[p].attempts < MaxAttempts
  /\ pc' = [pc EXCEPT ![p] = "send"]
  /\ job' = [job EXCEPT ![p].attempts = @ + 1, ![p].result = "",
                         ![p].earlier = Append(@, job[p].result),
                         ![p].before = roots[p]]
  /\ UNCHANGED <<tmpdir, roots>>

StepInstall == UNCHANGED <<fs, prev, last, nops, os, switch, inp, out>>

(***************************************************************************)
(* SpecStaging: two install commands with the same --tmpdir and install    *)
(* roots of their own, their steps interleaved.                            *)
(***************************************************************************)
InitStaging ==
  /\ os \in Builds
  /\ fs = EmptyFs /\ prev = EmptyFs /\ last = NoOp /\ nops = 0
  /\ Idle

NextStaging ==
  \/ \E p \in Procs : StepInstall /\ Start(p, ArchiveLayouts, {"match"})
  \/ \E p \in Procs : StepInstall /\ Send(p)
  \/ \E p \in Procs : StepInstall /\ Body(p)
  \/ \E p \in Procs : StepInstall /\ Extract(p)
  \/ \E p \in Procs : StepInstall /\ Copy(p)
  \/ \E p \in Procs : StepInstall /\ Env(p)

SpecStaging == InitStaging /\ [][NextStaging]_vars

(***************************************************************************)
(* SpecInstall: one install command on an install root, with a staging     *)
(* directory of its own, every step able to fail, and run again.  prev is  *)
(* the install root before the first run.                                  *)
(***************************************************************************)
InitialRoots(build) ==
  {EmptyFs,
   InstalledRoot({"0.9.0"}, "0.9.0", "", build),
   InstalledRoot({"0.9.0", "0.14.1"}, "0.14.1", "", build),
   \* the links left behind by the removal of the version they point into
   InstalledRoot({"0.14.1"}, "0.9.0", "", build)}

InitInstall ==
  /\ os \in Builds
  /\ fs = EmptyFs /\ last = NoOp /\ nops = 0
  /\ switch = NoSwitch
  /\ tmpdir = {}
  /\ pc = [p \in Procs |-> "idle"]
  /\ job = [p \in Procs |-> NoJob]
  /\ \E r \in InitialRoots(os) :
       /\ roots = [p \in Procs |-> IF p = 1 THEN r ELSE EmptyFs]
       /\ prev = r
  /\ NoCalls

NextInstall ==
  \/ StepInstall /\ Start(1, ArchiveLayouts \cup {Unrecognized}, {"match", "mismatch"})
  \/ StepInstall /\ Send(1)
  \/ StepInstall /\ SendFails(1)
  \/ StepInstall /\ Body(1)
  \/ StepInstall /\ BodyFails(1)
  \/ StepInstall /\ Extract(1)
  \/ StepInstall /\ ExtractFails(1)
  \/ StepInstall /\ Copy(1)
  \/ StepInstall /\ CopyKilled(1)
  \/ StepInstall /\ Env(1)
  \/ StepInstall /\ EnvFails(1)
  \/ StepInstall /\ Again(1)

SpecInstall == InitInstall /\ [][NextInstall]_vars

(***************************************************************************)
(* The functions checked on their own: inp is drawn from a set of          *)
(* arguments, the call sets out.                                           *)
(***************************************************************************)
NoStore ==
  /\ fs = EmptyFs /\ prev = EmptyFs /\ last = NoOp /\ nops = 0
  /\ IdleSteps

StepCall == UNCHANGED <<fs, prev, last, nops, os, switch, tmpdir, pc, job, roots>>

\* SpecChecksum: verify_file_checksum on a file handle and an expected
\* string.
FileContents == {<<>>, <<97>>, <<97, 98>>, TestData, DifferentData}

\* 0-9a-f to 0-9A-F
ToUpper(str) == [i \in 1..Len(str) |-> IF str[i] >= 97 THEN str[i] - 32 ELSE str[i]]

\* The digest of each file as SHA256SUM would list it, one in upper case,
\* one cut short, and the empty string.
Expecteds ==
  {hex_encode(Sha256(c)) : c \in FileContents} \cup
  {ToUpper(hex_encode(Sha256(TestData))), SubSeq(hex_encode(Sha256(TestData)), 1, 8), <<>>}

\* The handles: at offset 0, or further on where the model can hash the rest.
Files ==
  {f \in [content : FileContents, pos : 0..Len(DifferentData), exists : {TRUE}] :
     f.pos <= Len(f.content) /\
     Sha256(SubSeq(f.content, f.pos + 1, Len(f.content))) # <<>>}

InitChecksum ==
  /\ os = "unix"
  /\ NoStore
  /\ inp \in {[fn |-> "verify_file_checksum", file |-> f, expected |-> e] :
               f \in Files, e \in Expecteds}
  /\ out = NoCall

VerifyCall ==
  /\ out = NoCall
  /\ out' = verify_file_checksum(inp.file, inp.expected)
  /\ UNCHANGED inp

NextChecksum == StepCall /\ VerifyCall

SpecChecksum == InitChecksum /\ [][NextChecksum]_vars

\* SpecLatest and SpecList: latest_installed_version and list on a versions
\* directory.
DirNames == {"0.9.0", "0.14.1", "0.15.0", "0.15.0-rc.1", "not-a-version"}

VersionsDirs ==
  {[exists |-> FALSE, entries |-> {}]} \cup
  {[exists |-> TRUE,
    entries |-> {[name |-> n, kind |-> k[n]] : n \in {m \in DirNames : k[m] # "absent"}}] :
     k \in [DirNames -> {"absent", "dir", "file"}]}

InitLatest ==
  /\ os = "unix"
  /\ NoStore
  /\ inp \in {[fn |-> "latest_installed_version", dir |-> d] : d \in VersionsDirs}
  /\ out = NoCall

LatestCall ==
  /\ out = NoCall
  /\ out' = latest_installed_version(inp.dir)
  /\ UNCHANGED inp

NextLatest == StepCall /\ LatestCall

SpecLatest == InitLatest /\ [][NextLatest]_vars

\* The entry at <root>/bin: none, a real directory, or the link use makes.
BinEntries(build) ==
  {Absent, RealDir("0.9.0")} \cup
  {Symlink(target_path(build, v, "bin")) : v \in {"0.9.0", "0.15.0", "0.14.1"}}

InitList ==
  /\ os \in Builds
  /\ NoStore
  /\ inp \in {[fn |-> "list", dir |-> d, bin |-> b] :
               d \in VersionsDirs, b \in BinEntries(os)}
  /\ out = NoCall

ListCall ==
  /\ out = NoCall
  /\ out' = [lines |-> ListExecute(inp.dir, inp.bin)]
  /\ UNCHANGED inp

NextList == StepCall /\ ListCall

SpecList == InitList /\ [][NextList]_vars

\* SpecPlatform and SpecArchive: plugin_platform_key and the archive name
\* over the runtime versions around the manylinux switch.
PreReleases == {<<>>, <<<<114, 99>>, <<48>>>>, <<<<114, 99>>, <<49>>>>, <<<<97, 108, 112, 104, 97>>>>}

RuntimeVersions ==
  {[ok |-> TRUE, major |-> 0, minor |-> mi, patch |-> pa, pre |-> pr] :
     mi \in {13, 14, 15}, pa \in {0, 1, 5, 9}, pr \in PreReleases}

TargetOSs == {"Linux", "Ubuntu", "Darwin", "Windows"}

TargetArchs == {"X86_64", "Aarch64"}

LibcKinds == {"Glibc", "Musl", "Unknown"}

\* None, "22.04", "23.1.0", "23"
OsVersions ==
  {NoneOpt, Some(<<50, 50, 46, 48, 52>>), Some(<<50, 51, 46, 49, 46, 48>>), Some(<<50, 51>>)}

OsSpecs == [os_type : TargetOSs, arch : TargetArchs, libc : LibcKinds, version : OsVersions]

InitPlatform ==
  /\ os = "unix"
  /\ NoStore
  /\ inp \in {[fn |-> "plugin_platform_key", os |-> o, version |-> v] :
               o \in OsSpecs, v \in RuntimeVersions}
  /\ out = NoCall

PlatformCall ==
  /\ out = NoCall
  /\ out' = plugin_platform_key(inp.os, inp.version)
  /\ UNCHANGED inp

NextPlatform == StepCall /\ PlatformCall

SpecPlatform == InitPlatform /\ [][NextPlatform]_vars

InitArchive ==
  /\ os = "unix"
  /\ NoStore
  /\ inp \in {[fn |-> "Asset::new", version |-> v, os |-> o, arch |-> a] :
               v \in RuntimeVersions, o \in TargetOSs, a \in TargetArchs}
  /\ out = NoCall

ArchiveCall ==
  /\ out = NoCall
  /\ out' = [archive_name |-> format_archive_name(inp.version, inp.os, inp.arch)]
  /\ UNCHANGED inp

NextArchive == StepCall /\ ArchiveCall

SpecArchive == InitArchive /\ [][NextArchive]_vars

\* SpecResolve: resolve_version on a token and a release source.
Tokens == {"latest", "0.15.0", "0.14.1", "0.14.1-rc.1", "not-a-version"}

Tags == {VersionParse(Bytes(n)) : n \in {"0.15.0", "0.15.0-rc.1", "0.14.1", "0.14.1-rc.1"}}

Sources == UNION {[1..n -> Tags] : n \in 0..3}

InitResolve ==
  /\ os = "unix"
  /\ NoStore
  /\ inp \in {[fn |-> "resolve_version", version |-> t, source |-> r] :
               t \in Tokens, r \in Sources}
  /\ out = NoCall

ResolveCall ==
  /\ out = NoCall
  /\ out' = resolve_version(inp.version, inp.source)
  /\ UNCHANGED inp

NextResolve == StepCall /\ ResolveCall

SpecResolve == InitResolve /\ [][NextResolve]_vars

\* SpecPluginRemove: plugin remove on a store with two runtime versions.
PluginVersions == {"0.14.1", "0.15.0"}

PluginDirs ==
  {NoDir} \cup [exists : {TRUE}, plugins : SUBSET {wasi_nn, wasinn, wasi_logging}, other : BOOLEAN]

TopEntries ==
  {[kind |-> "absent", version |-> "", dir |-> NoDir]} \cup
  {[kind |-> "symlink", version |-> v, dir |-> NoDir] : v \in PluginVersions} \cup
  {[kind |-> "dir", version |-> "", dir |-> d] :
     d \in {x \in PluginDirs : x.exists /\ ~x.other /\ wasinn \notin x.plugins}}

PluginStores ==
  {[installed |-> PluginVersions, vplugin |-> vp, top |-> t] :
     vp \in {f \in [PluginVersions -> PluginDirs] :
               ~f["0.15.0"].other /\ wasinn \notin f["0.15.0"].plugins},
     t \in TopEntries}

Requests ==
  UNION {[1..n -> {wasi_nn, WASI_NN_dashed, wasinn, not_exists}] : n \in 1..2}

InitPluginRemove ==
  /\ os = "unix"
  /\ NoStore
  /\ inp \in {[fn |-> "plugin remove", st |-> st, plugins |-> r, runtime |-> x] :
               st \in PluginStores, r \in Requests, x \in PluginVersions \cup {"0.9.0"}}
  /\ out = NoCall

PluginRemoveCall ==
  /\ out = NoCall
  /\ out' = PluginRemoveExecute(inp.st, inp.plugins, inp.runtime)
  /\ UNCHANGED inp

NextPluginRemove == StepCall /\ PluginRemoveCall

SpecPluginRemove == InitPluginRemove /\ [][NextPluginRemove]_vars

\* SpecCopyTree: copy_tree on a source tree, in a walk order, with at most
\* one failing entry.
SourceEntries ==
  {[path |-> <<108, 105, 98, 54, 52, 47, 108, 105, 98, 119, 97, 115, 109, 101, 100, 103, 101, 46, 115, 111>>, kind |-> "file", target |-> <<>>],
   [path |-> <<108, 105, 98, 47, 108, 105, 98, 119, 97, 115, 109, 101, 100, 103, 101, 46, 115, 111>>, kind |-> "file", target |-> <<>>],
   [path |-> <<108, 105, 98, 54, 52, 47, 108, 105, 98, 119, 97, 115, 109, 101, 100, 103, 101, 46, 115, 111, 46, 48>>, kind |-> "symlink", target |-> <<108, 105, 98, 119, 97, 115, 109, 101, 100, 103, 101, 46, 115, 111>>],
   [path |-> <<98, 105, 110, 47, 109, 121, 108, 105, 98, 54, 52, 46, 115, 111>>, kind |-> "file", target |-> <<>>],
   [path |-> <<108, 105, 98, 54, 52, 45, 101, 120, 116, 114, 97, 47, 97>>, kind |-> "file", target |-> <<>>]}

\* The first segment of a path.
TopDir(path) == SubSeq(path, 1, IndexFrom(path, 47, 1) - 1)

\* WalkDir yields the entries of one directory together.
Walks ==
  {w \in UNION {[1..n -> SourceEntries] : n \in 0..Cardinality(SourceEntries)} :
     /\ \A i \in 1..Len(w), j \in 1..Len(w) : i # j => w[i] # w[j]
     /\ \A i \in 1..Len(w), j \in 1..Len(w), k \in 1..Len(w) :
          (i < j /\ j < k /\ TopDir(w[i].path) = TopDir(w[k].path)) =>
            TopDir(w[j].path) = TopDir(w[i].path)}

FaultsOf(w) ==
  {f \in [1..Len(w) -> EntryFaults] :
     \A i \in 1..Len(w), j \in 1..Len(w) : (f[i] # "none" /\ f[j] # "none") => i = j}

InitCopyTree ==
  /\ os = "unix"
  /\ NoStore
  /\ inp \in UNION {{[fn |-> "copy_tree", entries |-> w, faults |-> f] : f \in FaultsOf(w)} :
                      w \in Walks}
  /\ out = NoCall

CopyTreeCall ==
  /\ out = NoCall
  /\ out' = copy_tree_entries(inp.entries, inp.faults)
  /\ UNCHANGED inp

NextCopyTree == StepCall /\ CopyTreeCall

SpecCopyTree == InitCopyTree /\ [][NextCopyTree]_vars

\* SpecManifest: get_release_checksum on manifests written from lines of
\* tokens.  Digests are aa and bb, file names f (the asset) and g.
ManifestTokens ==
  {<<>>, <<<<97, 97>>, <<102>>>>, <<<<98, 98>>, <<102>>>>, <<<<97, 97>>, <<103>>>>,
   <<<<102>>>>, <<<<97, 97>>, <<102>>, <<103>>>>, <<<<102>>, <<97, 97>>>>}

\* "plain": one space between tokens.  "padded": a space before the
\* first token, tabs between tokens, CR at the end of the line.
ManifestLines == [tokens : ManifestTokens, style : {"plain", "padded"}]

RECURSIVE JoinWith(_, _)
JoinWith(tokens, sep) ==
  IF Len(tokens) = 0 THEN <<>>
  ELSE IF Len(tokens) = 1 THEN tokens[1]
  ELSE tokens[1] \o sep \o JoinWith(Tail(tokens), sep)

RenderLine(l) ==
  IF l.style = "plain" THEN JoinWith(l.tokens, <<32>>)
  ELSE <<32>> \o JoinWith(l.tokens, <<9, 9>>) \o <<13>>

RECURSIVE RenderManifest(_)
RenderManifest(ls) ==
  IF Len(ls) = 0 THEN <<>> ELSE RenderLine(Head(ls)) \o <<10>> \o RenderManifest(Tail(ls))

MaxManifestLines == 3

Manifests == UNION {[1..n -> ManifestLines] : n \in 0..MaxManifestLines}

InitManifest ==
  /\ os = "unix"
  /\ NoStore
  /\ inp \in {[fn |-> "get_release_checksum", success |-> ok, lines |-> m,
                content |-> RenderManifest(m), version |-> "0.14.1", asset |-> <<102>>] :
               ok \in BOOLEAN, m \in Manifests}
  /\ out = NoCall

ManifestCall ==
  /\ out = NoCall
  /\ out' = get_release_checksum(inp.success, inp.content, inp.version, inp.asset)
  /\ UNCHANGED inp

NextManifest == StepCall /\ ManifestCall

SpecManifest == InitManifest /\ [][NextManifest]_vars

(***************************************************************************)
(* SpecReleases: the Releases stream, one turn of the loop of poll_next a  *)
(* step.  inp is the upstream listing: inp.pages[k] is the sequence of the *)
(* release tags the regex finds in page k, and a page beyond the last is   *)
(* served without a tag.  out is the stream: current_page, current_start   *)
(* (the number of tags of the page already consumed), state, the page      *)
(* held by Fetched, the items yielded, whether the stream has returned     *)
(* None or an error, and emptyAt, the first page fetched that held no tag  *)
(* (0 while there is none).                                                *)
(***************************************************************************)
MaxExtraPages == 2

\* Releases::new
NewReleases ==
  [current_page |-> 1, current_start |-> 0, state |-> "Ready", html |-> <<>>,
   yielded |-> <<>>, ended |-> "", emptyAt |-> 0]

ReleasePages == UNION {[1..n -> Tags] : n \in 0..2}

Listings == UNION {[1..n -> ReleasePages \ {<<>>}] : n \in 0..2}

InitReleases ==
  /\ os = "unix"
  /\ NoStore
  /\ inp \in {[fn |-> "Releases", pages |-> l, filter |-> f] :
               l \in Listings, f \in {"All", "Stable"}}
  /\ out = NewReleases

\* State::Ready: fetch_releases(current_page)
PollReady ==
  /\ out.ended = "" /\ out.state = "Ready"
  /\ out.current_page <= Len(inp.pages) + MaxExtraPages
  /\ out' = [out EXCEPT !.state = "Loading"]
  /\ UNCHANGED inp

\* State::Loading, the future is Ok(s): send() and text() succeed whatever
\* the status of the response.
PollLoadingOk ==
  /\ out.ended = "" /\ out.state = "Loading"
  /\ out' = [out EXCEPT !.state = "Fetched",
                        !.html = IF out.current_page <= Len(inp.pages)
                                 THEN inp.pages[out.current_page] ELSE <<>>]
  /\ UNCHANGED inp

\* State::Loading, the future is Err(e): e.status() is None for an error of
\* send() or text(), so Some(Err(GitHub)) is returned.
PollLoadingErr ==
  /\ out.ended = "" /\ out.state = "Loading"
  /\ out' = [out EXCEPT !.ended = "GitHub"]
  /\ UNCHANGED inp

\* State::Fetched: the next tag of the page from current_start on, or the
\* next page.
PollFetched ==
  /\ out.ended = "" /\ out.state = "Fetched"
  /\ IF out.current_start >= Len(out.html)
     THEN out' = [out EXCEPT !.current_start = 0, !.current_page = @ + 1, !.state = "Ready",
                             !.emptyAt = IF @ = 0 /\ Len(out.html) = 0
                                         THEN out.current_page ELSE @]
     ELSE LET parsed_version == out.html[out.current_start + 1]
          IN out' = [out EXCEPT !.current_start = @ + 1,
                                !.yielded = IF ReleasesFilter_matches(inp.filter, parsed_version)
                                            THEN Append(@, parsed_version) ELSE @]
  /\ UNCHANGED inp

NextReleases ==
  \/ StepCall /\ PollReady
  \/ StepCall /\ PollLoadingOk
  \/ StepCall /\ PollLoadingErr
  \/ StepCall /\ PollFetched

SpecReleases == InitReleases /\ [][NextReleases]_vars

(***************************************************************************)
(* Properties of the version store.                                        *)
(***************************************************************************)
\* The four top-level entries are all absent, or all symlinks into the
\* same versions/<v>/.
LinksConsistent(f) ==
  \/ \A n \in NameSet : f.top[n].kind = "absent"
  \/ \E v \in VersionNames : \A n \in NameSet :
       f.top[n].kind = "symlink" /\ BelowRoot(f.top[n].target) = <<"versions", v, n>>

\* The greatest of a set of version names under semantic-version precedence.
SemverMax(S) == CHOOSE v \in S : \A w \in S \ {v} : SemverLess(w, v)

\* C1: after every completed install, use, remove(version) or remove(all),
\* the four top-level entries are all absent or all symlinks into one
\* versions/<V>/.
C1_LinksAllOrNothing ==
  (last.op # "none" /\ last.result = "Ok") => LinksConsistent(fs)

C3_FailedUseRestores ==
  (last.op = "use" /\ last.result = "IoError") => fs = prev

\* C4: when remove(V) deletes the current version and another version
\* remains, the four links point at the greatest remaining version under
\* semantic-version precedence.
C4_RemoveFallsBackToLatest ==
  (/\ last.op = "remove" /\ last.result = "Ok"
   /\ LinkVersion(prev, "bin") = last.version
   /\ fs.installed # {}) =>
    \A n \in NameSet :
      /\ fs.top[n].kind = "symlink"
      /\ BelowRoot(fs.top[n].target) = <<"versions", SemverMax(fs.installed), n>>

\* C5: when remove(V) deletes the only installed version, the install root
\* no longer exists.
C5_RemoveLastRemovesRoot ==
  (last.op = "remove" /\ last.result = "Ok" /\ prev.installed = {last.version}) =>
    fs = EmptyFs

\* C6: remove(V) without a versions/V directory returns VersionNotFound and
\* changes nothing on disk.
C6_RemoveMissingIsNoop ==
  (/\ last.op = "remove"
   /\ last.version \in VersionNames
   /\ ~VersionDirExists(prev, last.version)) =>
    last.result = "VersionNotFound" /\ fs = prev

\* remove of a missing version was refused on a root that has other versions
\* and a current one.
C6_Witness ==
  /\ last.op = "remove" /\ last.result = "VersionNotFound"
  /\ fs.installed # {}
  /\ LinkVersion(fs, "bin") \in fs.installed

\* C7: use(V) without a versions/V directory returns VersionNotFound and
\* leaves the four top-level entries (and the rest of the root) as they were.
C7_UseMissingIsNoop ==
  (last.op = "use" /\ ~VersionDirExists(prev, last.version)) =>
    last.result = "VersionNotFound" /\ fs.top = prev.top /\ fs = prev

\* use of a missing version was refused while another version was current.
C7_Witness ==
  /\ last.op = "use" /\ last.result = "VersionNotFound"
  /\ LinkVersion(fs, "bin") \in fs.installed
  /\ LinkVersion(fs, "bin") # last.version

\* C8: install(V) leaves the top-level symlinks and the tree of every other
\* version as they were.
C8_InstallFrame ==
  last.op = "install" =>
    /\ \A n \in NameSet :
         (prev.top[n].kind = "symlink" \/ fs.top[n].kind = "symlink") => fs.top[n] = prev.top[n]
    /\ \A w \in VersionNames \ {last.version} : fs.vtree[w] = prev.vtree[w]

\* C9: remove(V) takes the active-version branch exactly when the bin
\* symlink targets versions/V, and otherwise leaves the four entries alone.
C9_ActiveBySymlink ==
  (last.op = "remove" /\ last.result = "Ok") =>
    /\ last.active <=> (LinkVersion(prev, "bin") = last.version)
    /\ LinkVersion(prev, "bin") # last.version => fs.top = prev.top

\* C10: remove(all) on a root with an installed version ends with the whole
\* install root removed.
C10_RemoveAllRemovesRoot ==
  (last.op = "remove_all" /\ prev.installed # {}) => ~fs.root /\ ~fs.versionsDir

\* C11: remove(all) on an install root with nothing installed and no
\* versions directory returns an error, not success.
C11_RemoveAllEmptyIsError ==
  (last.op = "remove_all" /\ prev.installed = {} /\ ~prev.versionsDir) =>
    last.result # "Ok"

\* The four top-level entries are all symlinks into versions/<v>/.
AllLinksInto(f, v) ==
  \A n \in NameSet :
    f.top[n].kind = "symlink" /\ BelowRoot(f.top[n].target) = <<"versions", v, n>>

\* C12: at every moment of a use(V2) that switches from V1, the four
\* top-level links all point into versions/V1 or all into versions/V2: never
\* a mix, never a missing link.
C12_ReaderSeesOldOrNew ==
  (switch.active /\ switch.from # "" /\ switch.from # switch.version) =>
    AllLinksInto(fs, switch.from) \/ AllLinksInto(fs, switch.version)

\* The files that came out of an archive (not the downloads themselves) in
\* the install root of process p all come from the archive of the version p
\* installs.
HoldsOwnArchive(p) ==
  /\ \A n \in NameSet : roots[p].top[n].content \in {"absent", job[p].version}
  /\ \A e \in roots[p].extra :
       e.dir \notin {TmpName(q) : q \in Procs} => e.tag = job[p].version

\* C13: two installs of different versions with the same temporary
\* directory, interleaved in any order, each end with an install root that
\* holds the files of its own archive and no file of the other's.
C13_NoCrossWrites ==
  \A p \in Procs, q \in Procs :
    (pc[p] = "done" /\ pc[q] # "idle" /\ job[p].version # job[q].version) =>
      HoldsOwnArchive(p)

\* C14: an install whose download fails, at the request or in the middle of
\* the body, returns the error and leaves the install root as it was: no
\* version directory created or changed, the top-level links as they were.
C14_DownloadFailureLeavesRoot ==
  \A p \in Procs :
    (pc[p] \in {"body", "extract"} \/
     job[p].result \in {"Request(asset download)", "Request(chunk)"}) =>
      /\ roots[p] = job[p].before
      /\ job[p].result # "" => pc[p] = "failed"

\* The download failed in the middle of the body, on a root whose links
\* point into an installed version.
C14_Witness ==
  /\ pc[1] = "failed" /\ job[1].result = "Request(chunk)"
  /\ LinkVersion(roots[1], "bin") \in roots[1].installed
  /\ DownloadFile(1) \notin tmpdir

\* C15: an install whose archive does not have the published SHA-256 fails
\* with ChecksumMismatch and copies nothing of it into the install root.
C15_MismatchNeverInstalled ==
  \A p \in Procs :
    job[p].digest = "mismatch" =>
      /\ roots[p] = job[p].before
      /\ pc[p] # "done"
      /\ job[p].result # "Ok"

\* C17: an archive that unpacks to one unrecognized file is rejected with
\* InvalidArchiveStructure once it is extracted, and nothing of it is copied
\* into the install root.
C17_UnrecognizedRejected ==
  \A p \in Procs :
    job[p].layout = Unrecognized =>
      /\ pc[p] \notin {"env", "done"}
      /\ roots[p].extra = job[p].before.extra
      /\ job[p].result \in {"", "Request(asset download)", "Request(chunk)",
                             "Extract", "InvalidArchiveStructure"}

\* C18: an install(V) that completes after earlier runs of the same command
\* (failed part-way or completed) succeeds and leaves the install root a
\* single install(V) would have left.
C18_RetryGivesCleanInstall ==
  (pc[1] = "done" /\ job[1].attempts > 1) =>
    /\ job[1].result = "Ok"
    /\ roots[1] = InstallExecute(prev, job[1].version, job[1].layout,
                                  job[1].libdir, os).fs

\* The first run was killed in the middle of the copy and left a file cut
\* short; the second run completed.
C18_Witness ==
  /\ pc[1] = "done" /\ job[1].earlier = <<"Killed">>
  /\ \E n \in NameSet : job[1].before.top[n].content = "truncated"
  /\ roots[1].top["bin"].content = job[1].version

\* The SHA-256 of a file in lowercase hexadecimal, as sha256sum prints it
\* (for TestData and DifferentData the strings of test_checksum_verification).
Sha256Hex(c) ==
  CASE c = <<>> ->
         <<101, 51, 98, 48, 99, 52, 52, 50, 57, 56, 102, 99, 49, 99, 49, 52,
         57, 97, 102, 98, 102, 52, 99, 56, 57, 57, 54, 102, 98, 57, 50, 52,
         50, 55, 97, 101, 52, 49, 101, 52, 54, 52, 57, 98, 57, 51, 52, 99,
         97, 52, 57, 53, 57, 57, 49, 98, 55, 56, 53, 50, 98, 56, 53, 53>>
    [] c = <<97>> ->
         <<99, 97, 57, 55, 56, 49, 49, 50, 99, 97, 49, 98, 98, 100, 99, 97,
         102, 97, 99, 50, 51, 49, 98, 51, 57, 97, 50, 51, 100, 99, 52, 100,
         97, 55, 56, 54, 101, 102, 102, 56, 49, 52, 55, 99, 52, 101, 55, 50,
         98, 57, 56, 48, 55, 55, 56, 53, 97, 102, 101, 101, 52, 56, 98, 98>>
    [] c = <<97, 98>> ->
         <<102, 98, 56, 101, 50, 48, 102, 99, 50, 101, 52, 99, 51, 102, 50, 52,
         56, 99, 54, 48, 99, 51, 57, 98, 100, 54, 53, 50, 102, 51, 99, 49,
         51, 52, 55, 50, 57, 56, 98, 98, 57, 55, 55, 98, 56, 98, 52, 100,
         53, 57, 48, 51, 98, 56, 53, 48, 53, 53, 54, 50, 48, 54, 48, 51>>
    [] c = TestData ->
         <<57, 49, 54, 102, 48, 48, 50, 55, 97, 53, 55, 53, 48, 55, 52, 99,
         101, 55, 50, 97, 51, 51, 49, 55, 55, 55, 99, 51, 52, 55, 56, 100,
         54, 53, 49, 51, 102, 55, 56, 54, 97, 53, 57, 49, 98, 100, 56, 57,
         50, 100, 97, 49, 97, 53, 55, 55, 98, 102, 50, 51, 51, 53, 102, 57>>
    [] c = DifferentData ->
         <<54, 48, 56, 97, 48, 54, 56, 98, 51, 51, 100, 49, 56, 98, 101, 56,
         51, 56, 98, 99, 98, 48, 55, 98, 101, 100, 48, 49, 101, 51, 53, 53,
         50, 49, 100, 51, 48, 56, 52, 48, 102, 97, 50, 52, 100, 98, 48, 57,
         49, 57, 50, 101, 54, 55, 98, 102, 100, 49, 56, 54, 101, 54, 50, 49>>

\* C16: verify_file_checksum on a file at offset 0 returns Ok exactly when
\* the lowercase hex SHA-256 of the whole file is the expected string, and
\* then the read position is 0 again; otherwise it returns ChecksumMismatch
\* with the expected string, the computed digest, the two differing, and the
\* file is still there.
C16_VerifyChecksum ==
  (out # NoCall /\ inp.fn = "verify_file_checksum" /\ inp.file.pos = 0) =>
    /\ out.result = "Ok" <=> Sha256Hex(inp.file.content) = inp.expected
    /\ out.result = "Ok" => out.file.pos = 0
    /\ out.result # "Ok" =>
         /\ out.result = "ChecksumMismatch"
         /\ out.expected = inp.expected
         /\ out.actual = Sha256Hex(inp.file.content)
         /\ out.actual # out.expected
    /\ out.file.exists /\ out.file.content = inp.file.content

\* The file of the test, read from offset 0 with its own digest expected.
C16_Witness ==
  /\ out # NoCall /\ inp.fn = "verify_file_checksum"
  /\ inp.file = [content |-> TestData, pos |-> 0, exists |-> TRUE]
  /\ out.result = "Ok" /\ out.file.pos = 0

\* The names of the directories in d that parse as semantic versions.
ParsableDirs(d) ==
  IF d.exists
  THEN {e.name : e \in {x \in d.entries : x.kind = "dir" /\ VersionParse(Bytes(x.name)).ok}}
  ELSE {}

\* C19: latest_installed_version returns the greatest, under
\* semantic-version precedence, of the directory names in versions/ that
\* parse as semantic versions (a release above its pre-release, 0.15.0 above
\* 0.9.0), whatever else the directory holds, and None when versions/ does
\* not exist or holds no such directory.
C19_LatestInstalled ==
  (out # NoCall /\ inp.fn = "latest_installed_version") =>
    /\ ParsableDirs(inp.dir) = {} <=> out = None
    /\ ParsableDirs(inp.dir) # {} =>
         /\ out.some /\ out.version \in ParsableDirs(inp.dir)
         /\ \A w \in ParsableDirs(inp.dir) \ {out.version} : SemverLess(w, out.version)
    /\ ("0.15.0" \in ParsableDirs(inp.dir)) => out.version = "0.15.0"
    /\ ("0.15.0" \notin ParsableDirs(inp.dir) /\ "0.15.0-rc.1" \in ParsableDirs(inp.dir)) =>
         out.version = "0.15.0-rc.1"

\* The directory of test_latest_installed_version_basic with a pre-release
\* and a file besides: 0.15.0 is returned.
C19_Witness ==
  /\ out # NoCall /\ inp.fn = "latest_installed_version"
  /\ inp.dir.entries = {[name |-> "0.9.0", kind |-> "dir"], [name |-> "0.15.0", kind |-> "dir"],
                         [name |-> "not-a-version", kind |-> "dir"],
                         [name |-> "0.15.0-rc.1", kind |-> "dir"],
                         [name |-> "0.14.1", kind |-> "file"]}
  /\ out = [some |-> TRUE, version |-> "0.15.0"]

\* C20: the installed versions are listed as the directory names in
\* versions/ that parse as semantic versions, in descending
\* semantic-version order, and at most one line is marked current: the one
\* of the version the bin symlink points into.
C20_ListDescending ==
  (out # NoCall /\ inp.fn = "list") =>
    LET lines == out.lines
    IN /\ {lines[i].version : i \in 1..Len(lines)} = ParsableDirs(inp.dir)
       /\ Len(lines) = Cardinality(ParsableDirs(inp.dir))
       /\ \A i \in 1..Len(lines), j \in 1..Len(lines) :
            i < j => SemverLess(lines[j].version, lines[i].version)
       /\ \A i \in 1..Len(lines) :
            lines[i].current <=>
              (inp.bin.kind = "symlink" /\
               BelowRoot(inp.bin.target) = <<"versions", lines[i].version, "bin">>)

\* Below 0.15.0-rc.0 in semantic-version precedence, stated on the fields.
BelowSwitch(v) == v.minor < 15 \/ (v.minor = 15 /\ v.patch = 0 /\ v.pre # <<>> /\
                                    v.pre # <<<<114, 99>>, <<48>>>> /\ v.pre # <<<<114, 99>>, <<49>>>>)

\* C21: on Linux or Ubuntu with glibc, plugin_platform_key is
\* manylinux2014_<arch> for every runtime version strictly below
\* 0.15.0-rc.0 and manylinux_2_28_<arch> for every version at or above it;
\* on Linux with another libc, and on Windows on an arch other than x86_64,
\* it is UnsupportedPlatform.
C21_PluginPlatformKey ==
  (out # NoCall /\ inp.fn = "plugin_platform_key") =>
    LET o == inp.os
        a == IF o.arch = "X86_64" THEN "x86_64" ELSE "aarch64"
    IN /\ (o.os_type \in {"Linux", "Ubuntu"} /\ o.libc = "Glibc") =>
            /\ out.ok
            /\ out.key = [prefix |-> IF BelowSwitch(inp.version)
                                     THEN "manylinux2014" ELSE "manylinux_2_28",
                          major |-> <<>>, arch |-> a]
       /\ (o.os_type \in {"Linux", "Ubuntu"} /\ o.libc # "Glibc") =>
            ~out.ok /\ out.error = "UnsupportedPlatform"
       /\ (o.os_type = "Windows" /\ o.arch # "X86_64") =>
            ~out.ok /\ out.error = "UnsupportedPlatform"

\* Linux/glibc at 0.15.0-rc.1: manylinux_2_28.
C21_Witness ==
  /\ out # NoCall /\ inp.fn = "plugin_platform_key"
  /\ inp.os.os_type = "Linux" /\ inp.os.libc = "Glibc" /\ inp.os.arch = "Aarch64"
  /\ inp.version = [ok |-> TRUE, major |-> 0, minor |-> 15, patch |-> 0,
                     pre |-> <<<<114, 99>>, <<49>>>>]
  /\ out.ok /\ out.key.prefix = "manylinux_2_28" /\ out.key.arch = "aarch64"

\* C22: for generic Linux (and Ubuntu on aarch64 below 0.13.5) the archive
\* name carries manylinux2014 for every version whose major.minor is at most
\* 0.14, pre-releases included, and manylinux_2_28 from 0.15.0 on, the same
\* tag as the plugin platform key of that version; Ubuntu on x86_64 gets
\* ubuntu20.04_x86_64 and Ubuntu on aarch64 from 0.13.5 on ubuntu20.04_aarch64.
C22_ArchiveNameTag ==
  (out # NoCall /\ inp.fn = "Asset::new") =>
    LET v       == inp.version
        name    == out.archive_name
        generic == \/ inp.os = "Linux"
                   \/ /\ inp.os = "Ubuntu" /\ inp.arch = "Aarch64"
                      /\ (v.minor < 13 \/ (v.minor = 13 /\ v.patch < 5))
        key     == plugin_platform_key([os_type |-> inp.os, arch |-> inp.arch,
                                        libc |-> "Glibc", version |-> NoneOpt], v)
    IN /\ generic =>
            /\ v.minor <= 14 => name.platform = "manylinux2014"
            /\ (v.minor >= 15 /\ v.pre = <<>>) => name.platform = "manylinux_2_28"
            /\ name.platform = key.key.prefix
       /\ (inp.os = "Ubuntu" /\ inp.arch = "X86_64") =>
            name.platform = "ubuntu20.04" /\ name.arch = "x86_64"
       /\ (inp.os = "Ubuntu" /\ inp.arch = "Aarch64" /\
           (v.minor > 13 \/ (v.minor = 13 /\ v.patch >= 5 /\ v.pre = <<>>))) =>
            name.platform = "ubuntu20.04" /\ name.arch = "aarch64"

\* The positions of the stable tags of a source.
StableAt(source) == {i \in 1..Len(source) : source[i].pre = <<>>}

\* C23: resolve_version("latest") returns the first tag of the
\* reverse-chronological release sequence whose pre-release is empty, never
\* a pre-release, and fails with NoReleasesFound when there is no stable
\* release; any other token gives its parsed semantic version (pre-release
\* allowed) without a query of the release source, or an invalid-version
\* error when it does not parse.
C23_ResolveVersion ==
  (out # NoCall /\ inp.fn = "resolve_version") =>
    /\ (inp.version = "latest" /\ StableAt(inp.source) # {}) =>
         /\ out.ok /\ out.version.pre = <<>>
         /\ \E i \in StableAt(inp.source) :
              out.version = inp.source[i] /\ \A j \in StableAt(inp.source) : i <= j
    /\ (inp.version = "latest" /\ StableAt(inp.source) = {}) =>
         ~out.ok /\ out.error = "NoReleasesFound"
    /\ (inp.version # "latest" /\ VersionParse(Bytes(inp.version)).ok) =>
         out.ok /\ out.version = VersionParse(Bytes(inp.version)) /\ ~out.queried
    /\ (inp.version # "latest" /\ ~VersionParse(Bytes(inp.version)).ok) =>
         ~out.ok /\ out.error = "SemVer" /\ ~out.queried

\* A name without its punctuation and in lower case, byte by byte.
RECURSIVE Folded(_)
Folded(str) ==
  IF str = <<>> THEN <<>>
  ELSE LET c == Head(str)
       IN IF c \in 65..90 THEN <<c + 32>> \o Folded(Tail(str))
          ELSE IF c \in 97..122 \/ c \in 48..57 THEN <<c>> \o Folded(Tail(str))
          ELSE Folded(Tail(str))

\* The plugin names in the directories a store holds.
AllPluginNames(st) ==
  UNION {st.vplugin[v].plugins : v \in DOMAIN st.vplugin} \cup st.top.dir.plugins

C29_OnlyRuntimeVersion ==
  (out # NoCall /\ inp.fn = "plugin remove" /\ inp.runtime \in inp.st.installed) =>
    \A Y \in inp.st.installed \ {inp.runtime} : out.st.vplugin[Y] = inp.st.vplugin[Y]

\* A path with every segment equal to lib64 replaced by lib.
RECURSIVE JoinSegs(_)
JoinSegs(segs) ==
  IF Len(segs) = 0 THEN <<>>
  ELSE IF Len(segs) = 1 THEN segs[1]
  ELSE segs[1] \o <<47>> \o JoinSegs(Tail(segs))

SegmentRewrite(path) ==
  JoinSegs([i \in 1..Len(Split(path, 47)) |->
              IF Split(path, 47)[i] = <<108, 105, 98, 54, 52>>
              THEN <<108, 105, 98>> ELSE Split(path, 47)[i]])

\* C25: a tree installation rewrites only a path segment exactly equal to
\* lib64, to lib; every other segment and every file name is kept, names
\* that merely contain lib64 included, and every regular file and symlink
\* keeps its relative path otherwise.
C25_OnlyLib64Segment ==
  (out # NoCall /\ inp.fn = "copy_tree" /\
   \A i \in 1..Len(inp.faults) : inp.faults[i] = "none") =>
    \A i \in 1..Len(inp.entries) :
      \E d \in out.dest : d.path = SegmentRewrite(inp.entries[i].path)

\* C30: when copy_tree returns Ok, every regular file and every symlink of
\* the source is at a destination path of its own; a failure to create a
\* parent directory, to copy a file or to create a symlink is not reduced
\* to a warning under which copy_tree reports success on an incomplete
\* tree.
C30_OkMeansComplete ==
  (out # NoCall /\ inp.fn = "copy_tree" /\ out.result = "Ok") =>
    \A i \in 1..Len(inp.entries) :
      \E d \in out.dest : d.data = inp.entries[i].path /\ d.kind = inp.entries[i].kind

\* The lines of a manifest that have exactly two tokens, the second being
\* the asset's archive name.
MatchingLines(m, asset) ==
  {i \in 1..Len(m) : Len(m[i].tokens) = 2 /\ m[i].tokens[2] = asset}

\* C27: get_release_checksum returns the first token of the first manifest
\* line that splits on whitespace into exactly two tokens, the second equal
\* to the asset's archive name; empty lines and lines with another token
\* count are skipped; with no such line it returns ChecksumNotFound with
\* the version and the asset name.
C27_ReleaseChecksum ==
  (out # NoCall /\ inp.fn = "get_release_checksum" /\ inp.success) =>
    LET hits == MatchingLines(inp.lines, inp.asset)
    IN /\ hits # {} =>
            /\ out.ok
            /\ \E i \in hits :
                 /\ \A j \in hits : i <= j
                 /\ out.checksum = inp.lines[i].tokens[1]
       /\ hits = {} =>
            /\ ~out.ok /\ out.error = "ChecksumNotFound"
            /\ out.version = inp.version /\ out.asset = inp.asset

\* A line of three tokens, then `bb f` padded and `aa f`: bb is returned.
C27_Witness ==
  /\ out # NoCall /\ inp.fn = "get_release_checksum" /\ inp.success
  /\ Len(inp.lines) = 3
  /\ inp.lines[1].tokens = <<<<97, 97>>, <<102>>, <<103>>>>
  /\ inp.lines[2] = [tokens |-> <<<<98, 98>>, <<102>>>>, style |-> "padded"]
  /\ inp.lines[3].tokens = <<<<97, 97>>, <<102>>>>
  /\ out.ok /\ out.checksum = <<98, 98>>

\* C26: use(V2) while the top-level names are valid symlinks into
\* versions/V1 removes the link entries only: nothing under versions/V1, or
\* under any versions/<W>, is deleted or modified, whether use succeeds or
\* fails on the way; a real directory at a top-level name is what is
\* removed with its content.
C26_UseKeepsVersionTrees ==
  last.op = "use" =>
    /\ fs.vtree = prev.vtree
    /\ fs.installed = prev.installed
    /\ fs.versionsDir = prev.versionsDir
    /\ \A n \in NameSet :
         (last.result = "Ok" /\ prev.top[n].kind = "dir") => fs.top[n].kind = "symlink"

\* use(0.14.1) has replaced the four links into versions/0.9.0.
C26_Witness ==
  /\ last.op = "use" /\ last.result = "Ok" /\ last.version = "0.14.1"
  /\ AllLinksInto(prev, "0.9.0")
  /\ AllLinksInto(fs, "0.14.1")
  /\ fs.vtree["0.9.0"]["bin"] = "0.9.0"

\* C28: the Releases stream terminates when the upstream listing has
\* finitely many pages with release tags: once a fetched page holds no tag
\* the stream has ended (None or an error); it does not go on from Fetched
\* to Ready to Loading with the next page number.
C28_StreamEnds ==
  (inp.fn = "Releases" /\ out.emptyAt # 0) => out.ended # ""

====
